---- MODULE Spec2Model ----
(***************************************************************************)
(* Model of the sniff proxy: the per-organization Durable Object           *)
(* (ConnectionHandler), the webhook ingress and the OAuth controller.      *)
(*                                                                         *)
(* Concurrency model of a Durable Object: a handler runs without           *)
(* interruption up to an await of outbound network I/O (fetch) or of the   *)
(* body of its request (request.json()); while it waits there, other       *)
(* events of the same object are delivered.  Storage reads and writes      *)
(* close the input gate, so a handler is not interleaved at                *)
(* `await storage.get/put`.  An idle object may be evicted; its            *)
(* constructor then runs again on the next event, while the storage and    *)
(* the attachments of the accepted WebSockets are kept.                    *)
(*                                                                         *)
(* The OAuth controller keeps nothing between requests: what a callback    *)
(* knows it reads from the `state` parameter.  A callback that makes two   *)
(* requests to an object waits in the Worker between them, and the object  *)
(* takes other events meanwhile.  The identities of closed                 *)
(* WebSockets are taken again by later ones.                               *)
(*                                                                         *)
(* The CLI's ConnectionClient is modelled next to the proxy, with its own  *)
(* variables and specifications (SpecClient, SpecClientCalls); the answers *)
(* it is given are those the broker's operators build.                     *)
(***************************************************************************)
EXTENDS Naturals, Integers, Sequences, FiniteSets, Bags, TLC

\* ------------------------------------------------------------------ bounds
MaxCalls  == 2      \* activations of handleApiRelay waiting at the same time
MaxRequests == 1    \* HTTP requests suspended at an await at the same time
MaxIssued == 2      \* organization tokens the provider issues over a run
MaxTicks  == 1      \* steps of the clock over a run
MaxApiCalls == 2    \* apiCall invocations of the client over a run
MaxConnects == 2    \* WebSockets the client creates over a run

\* ------------------------------------------------------- program constants
RefreshBufferMs == 300000   \* 5 * 60 * 1000
TickMs          == 300000   \* step of the modelled clock
ExpiresInSec    == 500      \* expires_in of the provider's token responses (0: absent)

Tenants  == {"T1", "T2"}
Served   == {"T1"}          \* the tenant whose clients and admins are active
UserIds  == {"u1", "u2"}
EmailOf  == [u \in UserIds \cup {"constructor"} |->
               IF u = "u1" THEN "e1" ELSE IF u = "u2" THEN "e2" ELSE "x"]
CallIds  == {"id1", "id2"}
SockIds  == {1, 2}          \* the WebSockets that can be open at the same time

AccessNames  == <<"at1", "at2", "at3", "at4">>
RefreshNames == <<"rt1", "rt2", "rt3", "rt4">>

\* ------------------------------------------------------------------- state
VARIABLES
  orgState,     \* [Tenants -> OrgState]: the in-memory `orgState` of each object
  initialized,  \* [Tenants -> BOOLEAN]:  the `initialized` flag of each object
  storage,      \* [Tenants -> OrgState]: the persisted 'orgState' record
  sockets,      \* [SockIds -> socket]:   accepted WebSockets and attachments
  calls,        \* activations of handleApiRelay waiting for a fetch
  requests,     \* HTTP requests suspended at an await: in the object (its
                \* handler awaits request.json()) or in the controller (it
                \* awaits between two requests to the object)
  now,          \* Date.now()
  issued,       \* number of organization tokens the provider has issued
  out           \* what the last step emitted (messages, HTTP status, result)

\* ConnectionClient (packages/connection/src/client.ts), one instance.
VARIABLES
  ws,               \* this.ws: the socket it refers to, 0 for null
  readyState,       \* [ClientSocks -> state] of the sockets the client created
  shouldReconnect,  \* this.shouldReconnect
  pingInterval,     \* this.pingInterval is set
  pingTimers,       \* number of intervals started by startPing and not cleared
  reconnectTimeout, \* this.reconnectTimeout: "null", "armed", "fired"
  reconnectTimers,  \* number of timeouts set by scheduleReconnect, neither fired nor cleared
  pendingRequests,  \* keys of this.pendingRequests
  apiTimers,        \* ids whose 30 s timer of apiCall has not fired
  promises,         \* [id -> promise] returned by apiCall
  connects,         \* [socket -> promise] returned by the connect() that made it
  asked             \* bag of [sock, type, id]: frames the proxy holds unanswered

brokerVars == <<orgState, initialized, storage, sockets, calls, requests, now, issued>>

clientVars == <<ws, readyState, shouldReconnect, pingInterval, pingTimers, reconnectTimeout,
                reconnectTimers, pendingRequests, apiTimers, promises, connects, asked>>

vars == <<orgState, initialized, storage, sockets, calls, requests, now, issued, out,
          ws, readyState, shouldReconnect, pingInterval, pingTimers, reconnectTimeout,
          reconnectTimers, pendingRequests, apiTimers, promises, connects, asked>>

\* ------------------------------------------------------------ data shapes
\* OrgState.agentToken; an absent token is the record with present = FALSE.
\* Optional strings are "" and optional numbers 0 when undefined (both falsy).
NoToken == [present |-> FALSE, accessToken |-> "", refreshToken |-> "",
            expiresAt |-> 0, scope |-> ""]

\* `{ users: {} }`; users is the set of keys of the users map (the value
\* stored under a key is the identity record of that user).
EmptyOrg == [agentToken |-> NoToken, users |-> {}]

\* WsAttachment
Unauth == [authenticated |-> FALSE, userId |-> "", email |-> ""]

\* A socket that is not open: not yet accepted, or closed.
FreeSocket == [st |-> "free", org |-> "", att |-> Unauth]

\* What a handler turn took in and emitted.  op, org: the operation and the
\* object it ran on; ws, id, user, body: the socket, request id, payload
\* userId and raw webhook body it was given; begins: the turn starts an
\* operation of the object (FALSE: it resumes one after an await);
\* msgs: sequence of [to |-> socket, msg |-> envelope] sent; http: status of
\* the HTTP response (0: none); result: the object handed to returnToCli;
\* secret, signature: env.WEBHOOK_SECRET and the linear-signature header of
\* a webhook request;
\* refresh / upstream: the refresh token / access token of the outbound
\* fetch the turn issued; redirect: the state parameter of the 302; admin:
\* the admin flag of the identity the callback fetched; fetched: the
\* organization fetchOrgInfo returned to the callback; granted: the
\* refresh_token of the token response the turn received; stored: the
\* agentToken handleSetOrgToken was handed.  A result with
\* posted = FALSE carries the callback URL of a handler that has not (yet)
\* rendered the page.
NoResult == [success |-> FALSE, action |-> "", error |-> "", userId |-> "",
             organizationId |-> "", posted |-> FALSE, callback |-> ""]

Quiet(op, org) == [op |-> op, org |-> org, ws |-> 0, id |-> "", user |-> "", body |-> "",
                   begins |-> FALSE, msgs |-> <<>>, http |-> 0, result |-> NoResult,
                   refresh |-> "", upstream |-> "", redirect |-> "", admin |-> FALSE,
                   secret |-> "", signature |-> "", fetched |-> "", granted |-> "",
                   stored |-> NoToken]

\* No handler turn is in progress: the emission of the last one has left.
Idle == Quiet("idle", "")

Ready == out = Idle

\* crypto.randomUUID(): the id of the n-th apiCall.
UuidNames == <<"id1", "id2", "id3", "id4">>

Uuids == {UuidNames[n] : n \in 1..Len(UuidNames)}

ClientSocks == 1..MaxConnects

\* A promise: state "none" (not created), "pending", "resolved", "rejected";
\* value: what it was resolved with or the message of the Error it was
\* rejected with; settles: the calls of its resolve / reject so far.
NoPromise == [state |-> "none", value |-> "", settles |-> 0]

InitClient ==
  /\ ws = 0
  /\ readyState = [k \in ClientSocks |-> "none"]
  /\ shouldReconnect = TRUE
  /\ pingInterval = FALSE
  /\ pingTimers = 0
  /\ reconnectTimeout = "null"
  /\ reconnectTimers = 0
  /\ pendingRequests = {}
  /\ apiTimers = {}
  /\ promises = [id \in Uuids |-> NoPromise]
  /\ connects = [k \in ClientSocks |-> NoPromise]
  /\ asked = EmptyBag

Init ==
  /\ InitClient
  /\ orgState    = [t \in Tenants |-> EmptyOrg]
  /\ initialized = [t \in Tenants |-> FALSE]
  /\ storage     = [t \in Tenants |-> EmptyOrg]
  /\ sockets     = [s \in SockIds |-> FreeSocket]
  /\ calls       = {}
  /\ requests    = {}
  /\ now         = TickMs
  /\ issued      = 0
  /\ out         = Idle

\* ---------------------------------------------------------------- messages
\* ConnectionMessage envelopes, flattened: fields a message does not carry
\* are "" / 0 / FALSE.
Envelope == [type |-> "", success |-> FALSE, error |-> "", organizationId |-> "",
             userId |-> "", email |-> "",
             id |-> "", status |-> 0, body |-> "", signature |-> ""]

AuthFailure(error) ==
  [Envelope EXCEPT !.type = "auth_response", !.error = error]

AuthSuccess(payload) ==
  [Envelope EXCEPT !.type = "auth_response", !.success = TRUE,
                   !.organizationId = payload.organizationId]

ApiError(id, status, error) ==
  [Envelope EXCEPT !.type = "api_response", !.id = id, !.status = status,
                   !.error = error]

ApiResult(id, status, body) ==
  [Envelope EXCEPT !.type = "api_response", !.id = id, !.status = status,
                   !.body = body]

WebhookMessage(body, signature) ==
  [Envelope EXCEPT !.type = "webhook", !.body = body, !.signature = signature]

Pong == [Envelope EXCEPT !.type = "pong"]

\* ------------------------------------------------- ConnectionHandler (DO)
\* Variant of ensureInitialized: the persisted record is never loaded.
ensureInitialized_unloaded(t) == orgState[t]

\* ensureInitialized: the orgState the object works on after the call.
ensureInitialized(t) ==
  IF initialized[t] THEN orgState[t]
  ELSE IF storage[t] # EmptyOrg THEN storage[t] ELSE orgState[t]

\* Variant of getWebSockets: the open sockets of every object.
getWebSockets_anyTenant(t) == {s \in SockIds : sockets[s].st = "open"}

\* state.getWebSockets(): the open sockets of the object.
getWebSockets(t) == {s \in SockIds : sockets[s].st = "open" /\ sockets[s].org = t}

Min(S) == CHOOSE x \in S : \A y \in S : x <= y

\* The identities a new WebSocket can take: those of no open socket and of
\* no socket an activation of handleApiRelay still holds.
FreeSockets ==
  {s \in SockIds : sockets[s].st = "free" /\ \A c \in calls : c.ws # s}

\* handleConnectionUpgrade + the WebSocket branch of ConnectionHandler.fetch
handleConnectionUpgrade(upgrade, org) ==
  /\ Ready
  /\ UNCHANGED <<storage, calls, requests, now, issued>>
  /\ IF ~upgrade
       THEN /\ out' = [Quiet("connect", "") EXCEPT !.http = 426]
            /\ UNCHANGED <<orgState, initialized, sockets>>
     ELSE IF org = ""
       THEN /\ out' = [Quiet("connect", "") EXCEPT !.http = 400]
            /\ UNCHANGED <<orgState, initialized, sockets>>
     ELSE /\ FreeSockets # {}
          /\ LET s == Min(FreeSockets) IN
             /\ orgState' = [orgState EXCEPT ![org] = ensureInitialized(org)]
             /\ initialized' = [initialized EXCEPT ![org] = TRUE]
             /\ sockets' = [sockets EXCEPT ![s] = [st |-> "open", org |-> org, att |-> Unauth]]
             /\ out' = [Quiet("connect", org) EXCEPT !.ws = s, !.http = 101, !.begins = TRUE]

\* The peer closes the socket; webSocketClose does nothing.
webSocketClose(s) ==
  /\ Ready
  /\ sockets[s].st = "open"
  /\ sockets' = [sockets EXCEPT ![s] = FreeSocket]
  /\ out' = [Quiet("close", sockets[s].org) EXCEPT !.ws = s]
  /\ UNCHANGED <<orgState, initialized, storage, calls, requests, now, issued>>

\* Property names every plain object inherits from Object.prototype
\* (constructor, toString, hasOwnProperty, __proto__, ...); one stands for
\* all of them.
PrototypeKeys == {"constructor"}

\* handleAuth, L252: `this.orgState.users[userId]` is truthy.  users is a
\* plain object, so the lookup finds the record stored under the key, or
\* the member of Object.prototype of that name.
usersLookup(users, userId) == userId \in users \/ userId \in PrototypeKeys

\* message.payload of an 'auth' message: the AuthPayload, or undefined when
\* the message carries none (webSocketMessage L128 passes it on unchecked).
AuthPayload(organizationId, userId, email) ==
  [present |-> TRUE, organizationId |-> organizationId, userId |-> userId, email |-> email]

NoPayload == [present |-> FALSE, organizationId |-> "", userId |-> "", email |-> ""]

\* Variant of handleAuthOutcome: the two checks in the other order.
handleAuthOutcome_userFirst(t, payload) ==
  IF ~payload.present THEN "TypeError"
  ELSE IF ~usersLookup(orgState[t].users, payload.userId) THEN "User not registered"
  ELSE IF ~orgState[t].agentToken.present THEN "Organization not configured"
  ELSE "ok"

\* handleAuth, L241-263: the answer for an auth payload.  The token check
\* does not read the payload; `payload.userId` (L253) throws a TypeError when
\* the payload is undefined, and the handler ends there.
handleAuthOutcome(t, payload) ==
  IF ~orgState[t].agentToken.present THEN "Organization not configured"
  ELSE IF ~payload.present THEN "TypeError"
  ELSE IF ~usersLookup(orgState[t].users, payload.userId) THEN "User not registered"
  ELSE "ok"

\* handleAuth: what the handler sends on socket s, nothing when it threw.
AuthAnswer(s, payload, r) ==
  IF r = "TypeError" THEN <<>>
  ELSE <<[to |-> s, msg |-> IF r = "ok" THEN AuthSuccess(payload) ELSE AuthFailure(r)]>>

\* Variant of handleAuth: a rejected auth resets the attachment of the socket.
handleAuth_resetting(s, payload) ==
  /\ Ready
  /\ sockets[s].st = "open"
  /\ LET t == sockets[s].org
         r == handleAuthOutcome(t, payload) IN
     /\ sockets' = [sockets EXCEPT ![s].att =
                      IF r = "ok"
                        THEN [authenticated |-> TRUE, userId |-> payload.userId,
                              email |-> payload.email]
                        ELSE Unauth]
     /\ out' = [Quiet("auth", t) EXCEPT !.ws = s, !.user = payload.userId, !.begins = TRUE,
                  !.msgs = AuthAnswer(s, payload, r)]
  /\ UNCHANGED <<orgState, initialized, storage, calls, requests, now, issued>>

\* handleAuth (L239-279): the attachment is written only on success; an
\* exception leaves the handler with nothing written and nothing sent.
handleAuth(s, payload) ==
  /\ Ready
  /\ sockets[s].st = "open"
  /\ LET t == sockets[s].org
         r == handleAuthOutcome(t, payload) IN
     /\ sockets' = IF r = "ok"
                     THEN [sockets EXCEPT ![s].att =
                             [authenticated |-> TRUE, userId |-> payload.userId,
                              email |-> payload.email]]
                     ELSE sockets
     /\ out' = [Quiet("auth", t) EXCEPT !.ws = s, !.user = payload.userId, !.begins = TRUE,
                  !.msgs = AuthAnswer(s, payload, r)]
  /\ UNCHANGED <<orgState, initialized, storage, calls, requests, now, issued>>

\* webSocketMessage, case 'ping'
handlePing(s) ==
  /\ Ready
  /\ sockets[s].st = "open"
  /\ out' = [Quiet("ping", sockets[s].org) EXCEPT !.ws = s, !.begins = TRUE,
               !.msgs = <<[to |-> s, msg |-> Pong]>>]
  /\ UNCHANGED <<orgState, initialized, storage, sockets, calls, requests, now, issued>>

\* webSocketMessage with a type no case matches: nothing is sent.
handleUnknownMessage(s) ==
  /\ Ready
  /\ sockets[s].st = "open"
  /\ out' = [Quiet("unknown", sockets[s].org) EXCEPT !.ws = s, !.begins = TRUE]
  /\ UNCHANGED <<orgState, initialized, storage, sockets, calls, requests, now, issued>>

\* ------------------------------------------------------- token management
\* getOrgToken, L353-355: does the token need a refresh at time `at`?
NeedsRefresh(tok, at) ==
  tok.expiresAt # 0 /\ at > tok.expiresAt - RefreshBufferMs

\* refreshOrgToken issues the exchange only when a refresh token is stored.
StartsRefresh(tok, at) == NeedsRefresh(tok, at) /\ tok.refreshToken # ""

\* Variant of RefreshedToken: the refresh token of the answer is not taken.
RefreshedToken_keepingRefresh(old, n, rotated, at) ==
  [present |-> TRUE,
   accessToken |-> AccessNames[n],
   refreshToken |-> old.refreshToken,
   expiresAt |-> at + ExpiresInSec * 1000,
   scope |-> old.scope]

\* refreshOrgToken, L391-396: the token stored after a successful exchange.
\* rotated: the response carries a refresh_token.
RefreshedToken(old, n, rotated, at) ==
  [present |-> TRUE,
   accessToken |-> AccessNames[n],
   refreshToken |-> IF rotated THEN RefreshNames[n] ELSE old.refreshToken,
   expiresAt |-> at + ExpiresInSec * 1000,
   scope |-> old.scope]

\* message.payload of an 'api' message: the ApiRequest of the client.  An
\* endpoint, like every URL here, is written as its pieces, the delimiters
\* of a URL being pieces of their own.
ApiRequest(id, method, endpoint, body) ==
  [id |-> id, method |-> method, endpoint |-> endpoint, body |-> body]

\* handleApiRelay, L313: `https://api.linear.app${endpoint}`.
LinearApi == <<"https://", "api.linear.app">>

RECURSIVE Join(_)
Join(pieces) == IF pieces = <<>> THEN "" ELSE Head(pieces) \o Join(Tail(pieces))

\* fetch(url): the authority of the URL is what follows the scheme up to
\* the first "/", "?" or "#".
Authority(url) ==
  LET rest  == Tail(url)
      stops == {i \in 1..Len(rest) : rest[i] \in {"/", "?", "#"}}
      last  == IF stops = {} THEN Len(rest) ELSE Min(stops) - 1 IN
  SubSeq(rest, 1, last)

\* fetch(url): the host the request is sent to is what follows the last "@"
\* of the authority.
UrlHost(url) ==
  LET a    == Authority(url)
      ats  == {i \in 1..Len(a) : a[i] = "@"}
      from == IF ats = {} THEN 1 ELSE (CHOOSE i \in ats : \A j \in ats : i >= j) + 1 IN
  Join(SubSeq(a, from, Len(a)))

\* An activation of handleApiRelay waiting for a fetch: pc = "refresh" (the
\* token endpoint) or "upstream" (the fetch of L313); ws: the socket; id,
\* method, endpoint, body: the destructured payload (L285); bearer: the
\* access token of the Authorization header of the upstream fetch, "" while
\* getOrgToken has not returned.
Call(pc, s, payload, t, bearer) ==
  [pc |-> pc, ws |-> s, id |-> payload.id, org |-> t, method |-> payload.method,
   endpoint |-> payload.endpoint, body |-> payload.body, bearer |-> bearer]

\* A suspended HTTP request.  pc: where it waits.  In the object, after
\* fetch has run ensureInitialized and while the handler awaits
\* request.json(): "forward" (handleForwardWebhook), "set_token"
\* (handleSetOrgToken), "register" (handleRegisterUser).  In the controller,
\* between two requests to the object: "joined" (phase A, after
\* checkOrgHasToken returned true), "viewer" (phase B, after storeOrgToken,
\* while fetchUserInfoFromAgentToken is awaited).  org: the object; flow:
\* the callback ("user", "agent"); user, admin: the identity to register;
\* callback: the callbackUrl of the state; token, fetched: the token to
\* store and the organization fetchOrgInfo returned; body, secret,
\* signature: the webhook.
NoRequest == [pc |-> "", org |-> "", flow |-> "", user |-> "", admin |-> FALSE,
              callback |-> "", token |-> NoToken, fetched |-> "",
              body |-> "", secret |-> "", signature |-> ""]

\* The pcs at which the handler of the object is suspended (the object is
\* in use); at the others the controller waits and the object is free.
ObjectPcs == {"forward", "set_token", "register"}

\* A further request can be suspended: at most MaxRequests are, and no two
\* are the same record.
Admits(q) == q \notin requests /\ Cardinality(requests) < MaxRequests

\* Variant of ApiRelayPath: without the check of the attachment.
ApiRelayPath_unchecked(att, tok, at) ==
  IF ~tok.present THEN "no token"
  ELSE IF StartsRefresh(tok, at) THEN "refresh"
  ELSE "upstream"

\* handleApiRelay, L288-309 with getOrgToken: which way the handler goes.
ApiRelayPath(att, tok, at) ==
  IF ~att.authenticated THEN "unauthenticated"
  ELSE IF ~tok.present THEN "no token"
  ELSE IF StartsRefresh(tok, at) THEN "refresh"
  ELSE "upstream"

\* handleApiRelay up to its first await of network I/O (or its return).
handleApiRelay(s, payload) ==
  /\ Ready
  /\ sockets[s].st = "open"
  /\ \A c \in calls : c.ws = s => c.id # payload.id
  /\ LET t    == sockets[s].org
         id   == payload.id
         tok  == orgState[t].agentToken
         path == ApiRelayPath(sockets[s].att, tok, now)
         o    == [Quiet("api", t) EXCEPT !.ws = s, !.id = id, !.begins = TRUE] IN
     /\ path \in {"refresh", "upstream"} => Cardinality(calls) < MaxCalls
     /\ CASE path = "unauthenticated" ->
               /\ calls' = calls
               /\ out' = [o EXCEPT !.msgs =
                            <<[to |-> s, msg |-> ApiError(id, 401, "Not authenticated")]>>]
          [] path = "no token" ->
               /\ calls' = calls
               /\ out' = [o EXCEPT !.msgs =
                            <<[to |-> s, msg |-> ApiError(id, 500, "No org token")]>>]
          [] path = "refresh" ->
               /\ calls' = calls \cup {Call("refresh", s, payload, t, "")}
               /\ out' = [o EXCEPT !.refresh = tok.refreshToken]
          [] path = "upstream" ->
               /\ calls' = calls \cup {Call("upstream", s, payload, t, tok.accessToken)}
               /\ out' = [o EXCEPT !.upstream = tok.accessToken]
  /\ UNCHANGED <<orgState, initialized, storage, sockets, requests, now, issued>>

\* refreshOrgToken after the token endpoint answered, then the rest of
\* getOrgToken and handleApiRelay up to the upstream fetch.
\* res: "ok" (new refresh token), "ok_same" (no refresh_token in the answer),
\* "rejected" (non-2xx), "threw".
RefreshResults == {"ok", "ok_same", "rejected", "threw"}

\* Variant of TokenAfterRefresh: a failed exchange drops the stored token.
TokenAfterRefresh_dropped(old, n, res, at) ==
  IF res \in {"ok", "ok_same"} THEN RefreshedToken(old, n, res = "ok", at) ELSE NoToken

\* refreshOrgToken, L380-401: orgState.agentToken when the function returns.
TokenAfterRefresh(old, n, res, at) ==
  IF res \in {"ok", "ok_same"} THEN RefreshedToken(old, n, res = "ok", at) ELSE old

refreshOrgTokenReturn(c, res) ==
  /\ Ready
  /\ c \in calls
  /\ c.pc = "refresh"
  /\ LET t    == c.org
         old  == orgState[t].agentToken
         good == res \in {"ok", "ok_same"}
         new  == TokenAfterRefresh(old, issued + 1, res, now) IN
     /\ good => issued < MaxIssued
     /\ issued' = IF good THEN issued + 1 ELSE issued
     /\ orgState' = [orgState EXCEPT ![t].agentToken = new]
     /\ storage' = IF good THEN [storage EXCEPT ![t] = orgState'[t]] ELSE storage
     /\ calls' = (calls \ {c}) \cup {[c EXCEPT !.pc = "upstream", !.bearer = new.accessToken]}
     /\ out' = [Quiet("refreshed", t) EXCEPT !.ws = c.ws, !.id = c.id,
                  !.upstream = new.accessToken,
                  !.granted = IF res = "ok" THEN RefreshNames[issued + 1] ELSE ""]
  /\ UNCHANGED <<initialized, sockets, requests, now>>

\* The answers of the Linear API: [kind, status, body, error].
UpstreamResults ==
  { [kind |-> "json",  status |-> 200, body |-> "data",   error |-> ""],
    [kind |-> "json",  status |-> 401, body |-> "denied", error |-> ""],
    [kind |-> "threw", status |-> 0,   body |-> "",       error |-> "fetch failed"] }

\* The answers to the upstream fetch of call c (L313-320).  The endpoint is
\* concatenated into the URL as the client sent it, so the host is Linear's
\* or one the client chose; that host is sent the Authorization header and
\* answers with any JSON, the token it was sent included.
UpstreamResultsOf(c) ==
  IF UrlHost(LinearApi \o c.endpoint) = "api.linear.app" THEN UpstreamResults
  ELSE UpstreamResults \cup
         {[kind |-> "json", status |-> 200, body |-> c.bearer, error |-> ""]}

\* handleApiRelay, L322-339: the api_response built from the upstream answer.
ApiResponseFor(c, res) ==
  IF res.kind = "json" THEN ApiResult(c.id, res.status, res.body)
  ELSE ApiError(c.id, 500, res.error)

\* Variant of Deliver: the message goes to the first open socket.
Deliver_firstOpen(s, m) ==
  IF sockets[s].st = "open"
    THEN <<[to |-> Min({x \in SockIds : sockets[x].st = "open"}), msg |-> m]>>
    ELSE <<>>

\* ws.send on a socket that is no longer open delivers nothing.
Deliver(s, m) == IF sockets[s].st = "open" THEN <<[to |-> s, msg |-> m]>> ELSE <<>>

handleApiRelayReturn(c, res) ==
  /\ Ready
  /\ c \in calls
  /\ c.pc = "upstream"
  /\ calls' = calls \ {c}
  /\ out' = [Quiet("relayed", c.org) EXCEPT !.ws = c.ws, !.id = c.id,
               !.msgs = Deliver(c.ws, ApiResponseFor(c, res))]
  /\ UNCHANGED <<orgState, initialized, storage, sockets, requests, now, issued>>

\* ------------------------------------------------- internal HTTP handlers
\* Variant of saveState: the record is not put to storage.
saveState_memoryOnly(t, o) ==
  /\ orgState' = [orgState EXCEPT ![t] = o]
  /\ initialized' = [initialized EXCEPT ![t] = TRUE]
  /\ storage' = storage

\* saveState after ensureInitialized: the object holds o and has stored it.
saveState(t, o) ==
  /\ orgState' = [orgState EXCEPT ![t] = o]
  /\ initialized' = [initialized EXCEPT ![t] = TRUE]
  /\ storage' = [storage EXCEPT ![t] = o]

\* Variant of setOrgToken: the token is not assigned.
setOrgToken_skipped(o, token) == o

\* handleSetOrgToken: the assignment to orgState.agentToken.
setOrgToken(o, token) == [o EXCEPT !.agentToken = token]

\* Variant of registerUser: the users map is replaced by one with this user.
registerUser_replacing(o, u) == [o EXCEPT !.users = {u}]

\* handleRegisterUser: the assignment to orgState.users[userId].
registerUser(o, u) == [o EXCEPT !.users = @ \cup {u}]

\* ConnectionHandler.fetch, L86: ensureInitialized before the request is
\* routed to its handler.
fetch(t) ==
  /\ orgState' = [orgState EXCEPT ![t] = ensureInitialized(t)]
  /\ initialized' = [initialized EXCEPT ![t] = TRUE]
  /\ UNCHANGED storage

\* handleHasOrgToken behind ConnectionHandler.fetch: the handler awaits
\* nothing, the object answers 200 or 404 in the turn the request arrives.
handleHasOrgToken(t) == fetch(t)

\* Variant of hasOrgTokenStatus: the object always answers 200.
hasOrgTokenStatus_configured(t) == 200

\* Variant of hasOrgTokenStatus: the object always answers 404.
hasOrgTokenStatus_unconfigured(t) == 404

hasOrgTokenStatus(t) == IF ensureInitialized(t).agentToken.present THEN 200 ELSE 404

\* -------------------------------------------------------- webhook bodies
\* Raw webhook bodies and what JSON.parse finds in them.
Bodies == {"{org:T1,creator:u1}", "{org:T1,creator:u2}", "{org:T1}",
           "{org:T2,creator:u1}", "{creator:u1}", "not json"}

Parsable(body) == body # "not json"

\* Bodies that do not address a tenant outside Served.
ServedBodies == Bodies \ {"{org:T2,creator:u1}"}

\* webhook.organizationId ("" when absent)
BodyOrganizationId(body) ==
  CASE body \in {"{org:T1,creator:u1}", "{org:T1,creator:u2}", "{org:T1}"} -> "T1"
    [] body = "{org:T2,creator:u1}" -> "T2"
    [] OTHER -> ""

\* webhook.agentSession?.creatorId ("" when absent)
BodyCreatorId(body) ==
  CASE body \in {"{org:T1,creator:u1}", "{org:T2,creator:u1}", "{creator:u1}"} -> "u1"
    [] body = "{org:T1,creator:u2}" -> "u2"
    [] OTHER -> ""

\* handleForwardWebhook, L164-181: allWs.find(...) twice; 0 when none.
\* The orders in which state.getWebSockets() can list the sockets (the
\* platform does not fix one).
Orders ==
  {o \in [1..Cardinality(SockIds) -> SockIds] : \A i, j \in DOMAIN o : o[i] = o[j] => i = j}

\* The first socket of `order` that is in S, 0 (no socket) when there is none.
First(order, S) ==
  IF \E i \in DOMAIN order : order[i] \in S
    THEN order[Min({i \in DOMAIN order : order[i] \in S})]
    ELSE 0

MatchingSockets(t, creatorId) ==
  {s \in getWebSockets(t) : sockets[s].att.authenticated /\ sockets[s].att.userId = creatorId}

AuthenticatedSockets(t) == {s \in getWebSockets(t) : sockets[s].att.authenticated}

\* Variant of targetWs: the first authenticated socket, whoever its user is.
targetWs_firstAuthenticated(t, body, order) == First(order, AuthenticatedSockets(t))

\* handleForwardWebhook, L155-173: the socket the webhook is sent to.
targetWs(t, body, order) ==
  LET creatorId == IF Parsable(body) THEN BodyCreatorId(body) ELSE ""
      byUser == IF creatorId # "" THEN First(order, MatchingSockets(t, creatorId)) ELSE 0
  IN IF byUser # 0 THEN byUser ELSE First(order, AuthenticatedSockets(t))

\* ----------------------------------------------------------- the ingress

\* verifySignature: hex HMAC-SHA256 of the payload under the secret.
Hmac(secret, payload) == "hmac(" \o secret \o "," \o payload \o ")"

\* Variant of verifySignature: any signature is taken for the expected one.
verifySignature_unchecked(payload, signature, secret) == TRUE

verifySignature(payload, signature, secret) == signature = Hmac(secret, payload)

\* The webhook requests of the runs: [secret, body, signature], secret being
\* env.WEBHOOK_SECRET ("": not set) and signature the linear-signature
\* header ("": absent).  Every body correctly signed; one body unsigned,
\* with the signature of another body, and with no secret set; bodies that
\* name no tenant with a signature of another body, unsigned, and with no
\* secret set.
WebhookRequest(secret, body, signature) ==
  [secret |-> secret, body |-> body, signature |-> signature]

WebhookRequests ==
  {WebhookRequest("whsec", b, Hmac("whsec", b)) : b \in ServedBodies}
  \cup {WebhookRequest("whsec", "{org:T1,creator:u1}", sg) : sg \in {"", Hmac("whsec", "{org:T1}")}}
  \cup {WebhookRequest("whsec", b, Hmac("whsec", "{org:T1}")) : b \in {"not json", "{creator:u1}"}}
  \cup {WebhookRequest("whsec", "not json", "")}
  \cup {WebhookRequest("", "{org:T1}", "")}
  \cup {WebhookRequest("", "{org:T1,creator:u1}", Hmac("whsec", "{org:T1}"))}
  \cup {WebhookRequest("", b, "") : b \in {"not json", "{creator:u1}"}}

\* Variant of ingressStatus: the body is parsed before the signature is
\* verified.
ingressStatus_parseFirst(secret, body, signature) ==
  IF ~Parsable(body) THEN 400
  ELSE IF BodyOrganizationId(body) = "" THEN 400
  ELSE IF secret # "" /\ signature = "" THEN 401
  ELSE IF secret # "" /\ ~verifySignature(body, signature, secret) THEN 401
  ELSE 0

\* handleWebhook: the status it answers; 0 stands for "forwarded to the
\* object", whose answer decides between 200 and 503.
ingressStatus(secret, body, signature) ==
  IF secret # "" /\ signature = "" THEN 401
  ELSE IF secret # "" /\ ~verifySignature(body, signature, secret) THEN 401
  ELSE IF ~Parsable(body) THEN 400
  ELSE IF BodyOrganizationId(body) = "" THEN 400
  ELSE 0

\* Variant of forwardStatus: the answer of the object is not looked at.
forwardStatus_ignored(w) == 200

\* handleWebhook, L69-75 with handleForwardWebhook, L183-189: the status for
\* the target the object found (0: none).
forwardStatus(w) == IF w = 0 THEN 503 ELSE 200

\* handleWebhook (webhook.ts L34-69) and forwardWebhookToConnection up to
\* the object: a rejected request is answered by the Worker; a forwarded one
\* reaches ConnectionHandler.fetch, which runs ensureInitialized, and
\* handleForwardWebhook stops at `await request.json()` (L150).
handleWebhook(secret, body, signature) ==
  /\ Ready
  /\ UNCHANGED <<sockets, calls, now, issued>>
  /\ LET st == ingressStatus(secret, body, signature)
         t  == BodyOrganizationId(body)
         q  == [NoRequest EXCEPT !.pc = "forward", !.org = t, !.body = body,
                  !.secret = secret, !.signature = signature] IN
     IF st # 0
       THEN /\ out' = [Quiet("webhook", "") EXCEPT !.http = st, !.body = body,
                         !.secret = secret, !.signature = signature]
            /\ UNCHANGED <<orgState, initialized, storage, requests>>
       ELSE /\ Admits(q)
            /\ fetch(t)
            /\ requests' = requests \cup {q}
            /\ out' = [Quiet("forward_webhook", t) EXCEPT !.body = body, !.begins = TRUE,
                         !.secret = secret, !.signature = signature]

\* handleForwardWebhook, L155-189, once request.json() has returned, and the
\* answer of handleWebhook (L69-75): the target is looked up among the
\* sockets as they are now.
handleForwardWebhook(q, order) ==
  /\ Ready
  /\ q \in requests
  /\ q.pc = "forward"
  /\ requests' = requests \ {q}
  /\ UNCHANGED <<orgState, initialized, storage, sockets, calls, now, issued>>
  /\ LET w == targetWs(q.org, q.body, order)
         o == [Quiet("webhook", q.org) EXCEPT !.body = q.body,
                 !.secret = q.secret, !.signature = q.signature,
                 !.http = forwardStatus(w)] IN
     out' = IF w = 0 THEN o
            ELSE [o EXCEPT !.ws = w,
                    !.msgs = <<[to |-> w, msg |-> WebhookMessage(q.body, q.signature)]>>]

\* ------------------------------------------------------------ environment
\* Variant of Recycle: the attachments of the object's sockets are lost with
\* its memory.
Recycle_forgettingSessions(t) ==
  /\ Ready
  /\ initialized[t]
  /\ \A c \in calls : c.org # t
  /\ \A q \in requests : q.org = t => q.pc \notin ObjectPcs
  /\ orgState' = [orgState EXCEPT ![t] = EmptyOrg]
  /\ initialized' = [initialized EXCEPT ![t] = FALSE]
  /\ sockets' = [s \in SockIds |->
                   IF sockets[s].st = "open" /\ sockets[s].org = t
                     THEN [sockets[s] EXCEPT !.att = Unauth] ELSE sockets[s]]
  /\ out' = Quiet("recycle", t)
  /\ UNCHANGED <<storage, calls, requests, now, issued>>

\* The object is evicted while no handler of it is waiting (no relay call
\* and no request suspended in it); its constructor runs again on the next
\* event.
Recycle(t) ==
  /\ Ready
  /\ initialized[t]
  /\ \A c \in calls : c.org # t
  /\ \A q \in requests : q.org = t => q.pc \notin ObjectPcs
  /\ orgState' = [orgState EXCEPT ![t] = EmptyOrg]
  /\ initialized' = [initialized EXCEPT ![t] = FALSE]
  /\ out' = Quiet("recycle", t)
  /\ UNCHANGED <<storage, sockets, calls, requests, now, issued>>

\* Date.now() advances.  The code reads the clock only to compare it with
\* the expiry of a stored token, so the clock is stepped while some stored
\* token has not yet entered its refresh window.
Tick ==
  /\ Ready
  /\ now < TickMs * (MaxTicks + 1)
  /\ \E t \in Tenants : /\ storage[t].agentToken.expiresAt # 0
                         /\ ~NeedsRefresh(storage[t].agentToken, now)
  /\ now' = now + TickMs
  /\ out' = Quiet("tick", "")
  /\ UNCHANGED <<orgState, initialized, storage, sockets, calls, requests, issued>>

\* ------------------------------------------------------- OAuth controller
Callbacks == {"", "http://localhost/cb", "http://localhost/cb2"}   \* `callback` query parameter

\* OAuthState; csrf is generated and never read again, so it is left out.
\* An absent callback or orgId is "".
OAuthState(callback, fl, orgId) == [callback |-> callback, flow |-> fl, orgId |-> orgId]

OAuthStates ==
  {OAuthState(cb, f, o) : cb \in Callbacks, f \in {"user", "agent"}, o \in Tenants \cup {""}}

\* encodeState: btoa(JSON.stringify(state)), an injective text of the state.
encodeState(st) == "b64{" \o st.callback \o "|" \o st.flow \o "|" \o st.orgId \o "}"

\* The `state` query parameters of the runs: absent, not an encoding, the
\* encoding of a state.
StateParams == {"", "garbage"} \cup {encodeState(st) : st \in OAuthStates}

\* decodeState: the state whose encoding the text is, null (a state with no
\* callback) when atob or JSON.parse throws.
DecodedStates ==
  [encoded \in StateParams |->
     IF \E st \in OAuthStates : encodeState(st) = encoded
       THEN CHOOSE st \in OAuthStates : encodeState(st) = encoded
       ELSE OAuthState("", "", "")]

decodeState(encoded) == DecodedStates[encoded]

\* The state the redirect of handleOAuth / of handleOAuthCallback carries.
UserState(callback) == encodeState(OAuthState(callback, "user", ""))

AgentState(callback, orgId) == encodeState(OAuthState(callback, "agent", orgId))

\* returnToCli: the page POSTs { platform, result } to callbackUrl.
returnToCli(callbackUrl, result) ==
  [result EXCEPT !.posted = TRUE, !.callback = callbackUrl]

Failure(error) == [NoResult EXCEPT !.error = error]

Joined(userId, org) ==
  [NoResult EXCEPT !.success = TRUE, !.action = "joined", !.userId = userId,
                   !.organizationId = org]

Configured(userId, org) ==
  [NoResult EXCEPT !.success = TRUE, !.action = "configured", !.userId = userId,
                   !.organizationId = org]

\* The token responses of the runs, <<withRefresh, withExpiry>>.
TokenKinds == {<<TRUE, TRUE>>, <<FALSE, TRUE>>, <<TRUE, FALSE>>}

\* The provider's answer to the elevated code exchange: its n-th token.
TokenResponse(n, withRefresh, withExpiry) ==
  [access_token |-> AccessNames[n],
   refresh_token |-> IF withRefresh THEN RefreshNames[n] ELSE "",
   expires_in |-> IF withExpiry THEN ExpiresInSec ELSE 0,
   scope |-> "read write app"]

\* storeOrgToken, L473-478: the agentToken built from the token response.
StoredToken(tokens, at) ==
  [present |-> TRUE, accessToken |-> tokens.access_token,
   refreshToken |-> tokens.refresh_token,
   expiresAt |-> IF tokens.expires_in # 0 THEN at + tokens.expires_in * 1000 ELSE 0,
   scope |-> tokens.scope]

\* handleOAuth: redirect to the provider with state {csrf, callback, flow:'user'}.
handleOAuth(callback) ==
  /\ Ready
  /\ out' = [Quiet("oauth_start", "") EXCEPT !.http = 302,
               !.redirect = UserState(callback)]
  /\ UNCHANGED <<orgState, initialized, storage, sockets, calls, requests, now, issued>>

\* What reaches a callback and what the provider answers to its fetches.
\*   query:    "code", "error" (error parameter), "nocode"
\*   state:    the `state` query parameter ("": absent)
\*   exchange: "ok", "rejected", "threw"      (token endpoint)
\*   user/org: the identity the GraphQL fetch returns, "" when it fails
\*   withRefresh, withExpiry: the token response carries refresh_token,
\*             expires_in
\*   viewer:   the user fetchUserInfoFromAgentToken returns, "" for null
Arrival(query, state, exchange, user, admin, org, withRefresh, withExpiry, viewer) ==
  [query |-> query, state |-> state, exchange |-> exchange, user |-> user,
   admin |-> admin, org |-> org, withRefresh |-> withRefresh, withExpiry |-> withExpiry,
   viewer |-> viewer]

GoodCallback == "http://localhost/cb"

\* Requests a callback rejects before it fetches anything: provider error,
\* no code, state absent, state not an encoding, state with no callback.
EarlyArrivals(good, bad) ==
  {Arrival(q, good, "ok", "", FALSE, "", FALSE, FALSE, "") : q \in {"error", "nocode"}}
  \cup {Arrival("code", st, "ok", "", FALSE, "", FALSE, FALSE, "") : st \in {"", "garbage", bad}}

UserArrivals ==
  EarlyArrivals(UserState(GoodCallback), UserState(""))
  \cup {Arrival("code", UserState(GoodCallback), x, "", FALSE, "", FALSE, FALSE, "") :
          x \in {"ok", "rejected", "threw"}}
  \cup {Arrival("code", UserState(cb), "ok", u, a, t, FALSE, FALSE, "") :
          cb \in Callbacks \ {""}, u \in UserIds, a \in BOOLEAN, t \in Served}

\* The first checks of both callbacks (L173-187, L289-303): the status of
\* the plain-text rejection, 0 when the code exchange is started.
callbackStatus(q, callbackUrl) ==
  IF q = "error" THEN 400
  ELSE IF q = "nocode" THEN 400
  ELSE IF callbackUrl = "" THEN 400
  ELSE 0

\* handleOAuthCallback (L167-277) up to the answer of checkOrgHasToken.  An
\* organization without token is answered in this turn (redirect to phase B
\* or the failure page); with a token the handler goes on to
\* registerUserInOrg, a second request to the object.
handleOAuthCallback(a) ==
  /\ Ready
  /\ UNCHANGED <<sockets, calls, now, issued>>
  /\ LET callbackUrl == decodeState(a.state).callback
         st == callbackStatus(a.query, callbackUrl)
         q  == [NoRequest EXCEPT !.pc = "joined", !.org = a.org, !.flow = "user",
                  !.user = a.user, !.admin = a.admin, !.callback = callbackUrl,
                  !.fetched = a.org] IN
     IF st # 0 THEN
       /\ out' = [Quiet("oauth_callback", "") EXCEPT !.http = st]
       /\ UNCHANGED <<orgState, initialized, storage, requests>>
     ELSE IF a.exchange # "ok" THEN
       /\ out' = [Quiet("oauth_callback", "") EXCEPT
                    !.http = IF a.exchange = "rejected" THEN 400 ELSE 500]
       /\ UNCHANGED <<orgState, initialized, storage, requests>>
     ELSE IF a.user = "" THEN
       /\ out' = [Quiet("oauth_callback", "") EXCEPT !.http = 200,
                    !.result = returnToCli(callbackUrl, Failure("Failed to fetch user info"))]
       /\ UNCHANGED <<orgState, initialized, storage, requests>>
     ELSE IF hasOrgTokenStatus(a.org) = 200 THEN
       /\ Admits(q)
       /\ handleHasOrgToken(a.org)
       /\ requests' = requests \cup {q}
       /\ out' = [Quiet("has_org_token", a.org) EXCEPT !.begins = TRUE,
                    !.user = a.user, !.admin = a.admin,
                    !.result = [NoResult EXCEPT !.callback = callbackUrl]]
     ELSE IF a.admin THEN
       /\ handleHasOrgToken(a.org)
       /\ UNCHANGED requests
       /\ out' = [Quiet("has_org_token", a.org) EXCEPT !.begins = TRUE, !.http = 302,
                    !.user = a.user, !.admin = a.admin,
                    !.result = [NoResult EXCEPT !.callback = callbackUrl],
                    !.redirect = AgentState(callbackUrl, a.org)]
     ELSE
       /\ handleHasOrgToken(a.org)
       /\ UNCHANGED requests
       /\ out' = [Quiet("has_org_token", a.org) EXCEPT !.begins = TRUE, !.http = 200,
                    !.user = a.user, !.admin = a.admin,
                    !.result = returnToCli(callbackUrl, Failure("org_not_configured"))]

\* registerUserInOrg (part_008 L444-458) of a callback that waits in the
\* controller, phase A after checkOrgHasToken, phase B when the viewer fetch
\* has returned a user: the request reaches ConnectionHandler.fetch, which runs
\* ensureInitialized, and handleRegisterUser stops at `await request.json()`
\* (L223).
registerUserInOrg(q) ==
  /\ Ready
  /\ q \in requests
  /\ q.pc = "joined" \/ (q.pc = "viewer" /\ q.user # "")
  /\ [q EXCEPT !.pc = "register"] \notin requests
  /\ fetch(q.org)
  /\ requests' = (requests \ {q}) \cup {[q EXCEPT !.pc = "register"]}
  /\ out' = [Quiet("register_request", q.org) EXCEPT !.begins = TRUE, !.user = q.user,
               !.admin = q.admin, !.result = [NoResult EXCEPT !.callback = q.callback]]
  /\ UNCHANGED <<sockets, calls, now, issued>>

\* handleRegisterUser, L224-229, once request.json() has returned: the
\* assignment and saveState; then the page of the callback that asked
\* (handleOAuthCallback L233-245, handleAgentOAuthCallback L358-365).
handleRegisterUser(q) ==
  /\ Ready
  /\ q \in requests
  /\ q.pc = "register"
  /\ saveState(q.org, registerUser(orgState[q.org], q.user))
  /\ requests' = requests \ {q}
  /\ out' = IF q.flow = "user"
              THEN [Quiet("register_user", q.org) EXCEPT !.http = 200,
                      !.user = q.user, !.admin = q.admin,
                      !.result = returnToCli(q.callback, Joined(q.user, q.fetched))]
              ELSE [Quiet("register_admin", q.org) EXCEPT !.http = 200,
                      !.user = q.user,
                      !.result = returnToCli(q.callback, Configured(q.user, q.fetched))]
  /\ UNCHANGED <<sockets, calls, now, issued>>

AgentArrivals ==
  EarlyArrivals(AgentState(GoodCallback, "T1"), AgentState("", "T1"))
  \cup {Arrival("code", AgentState(GoodCallback, "T1"), x, "", FALSE, "", FALSE, FALSE, "") :
          x \in {"ok", "rejected", "threw"}}
  \cup {Arrival("code", AgentState(cb, o), "ok", "", FALSE, t, k[1], k[2], v) :
          cb \in Callbacks \ {""}, o \in Tenants, t \in Served, k \in TokenKinds,
          v \in UserIds \cup {""}}

\* Variant of storeOrgTokenTarget: the orgId of the round-tripped state.
storeOrgTokenTarget_fromState(a) == decodeState(a.state).orgId

\* handleAgentOAuthCallback, L346: storeOrgToken(orgInfo.organizationId, ..),
\* the object the token is written to.
storeOrgTokenTarget(a) == a.org

\* handleAgentOAuthCallback (L283-346) up to the object: the code exchange,
\* fetchOrgInfo, and storeOrgToken, whose request reaches
\* ConnectionHandler.fetch; that runs ensureInitialized, and
\* handleSetOrgToken stops at `await request.json()` (L196).
handleAgentOAuthCallback(a) ==
  /\ Ready
  /\ UNCHANGED <<sockets, calls, now>>
  /\ LET callbackUrl == decodeState(a.state).callback
         st == callbackStatus(a.query, callbackUrl) IN
     IF st # 0 THEN
       /\ out' = [Quiet("agent_callback", "") EXCEPT !.http = st]
       /\ UNCHANGED <<orgState, initialized, storage, requests, issued>>
     ELSE IF a.exchange # "ok" THEN
       /\ out' = [Quiet("agent_callback", "") EXCEPT !.http = 200,
                    !.result = returnToCli(callbackUrl,
                       Failure(IF a.exchange = "rejected" THEN "Token exchange failed"
                               ELSE "Error"))]
       /\ UNCHANGED <<orgState, initialized, storage, requests, issued>>
     ELSE IF a.org = "" THEN
       /\ out' = [Quiet("agent_callback", "") EXCEPT !.http = 200,
                    !.result = returnToCli(callbackUrl,
                                 Failure("Failed to fetch organization info"))]
       /\ UNCHANGED <<orgState, initialized, storage, requests, issued>>
     ELSE
       /\ issued < MaxIssued
       /\ issued' = issued + 1
       /\ LET tokens == TokenResponse(issued + 1, a.withRefresh, a.withExpiry)
              t      == storeOrgTokenTarget(a)
              q      == [NoRequest EXCEPT !.pc = "set_token", !.org = t, !.flow = "agent",
                           !.user = a.viewer, !.callback = callbackUrl,
                           !.token = StoredToken(tokens, now), !.fetched = a.org] IN
          /\ Admits(q)
          /\ fetch(t)
          /\ requests' = requests \cup {q}
          /\ out' = [Quiet("set_org_token_request", t) EXCEPT !.begins = TRUE,
                       !.user = a.viewer,
                       !.fetched = a.org,
                       !.granted = tokens.refresh_token,
                       !.result = [NoResult EXCEPT !.callback = callbackUrl]]

\* handleSetOrgToken, L197-201, once request.json() has returned: the
\* assignment, saveState and the answer to storeOrgToken.  The callback then
\* awaits the viewer fetch (part_008 L351) and has answered nothing yet.
handleSetOrgToken(q) ==
  /\ Ready
  /\ q \in requests
  /\ q.pc = "set_token"
  /\ saveState(q.org, setOrgToken(orgState[q.org], q.token))
  /\ [q EXCEPT !.pc = "viewer"] \notin requests
  /\ requests' = (requests \ {q}) \cup {[q EXCEPT !.pc = "viewer"]}
  /\ out' = [Quiet("set_org_token", q.org) EXCEPT
               !.user = q.user,
               !.fetched = q.fetched,
               !.granted = q.token.refreshToken,
               !.stored = q.token,
               !.result = [NoResult EXCEPT !.callback = q.callback]]
  /\ UNCHANGED <<sockets, calls, now, issued>>

\* handleAgentOAuthCallback, L351-365, when fetchUserInfoFromAgentToken has
\* returned null: no registration, and the page 'configured' without a user.
handleAgentOAuthCallbackNoViewer(q) ==
  /\ Ready
  /\ q \in requests
  /\ q.pc = "viewer"
  /\ q.user = ""
  /\ requests' = requests \ {q}
  /\ out' = [Quiet("agent_viewer", q.org) EXCEPT
               !.http = 200,
               !.fetched = q.fetched,
               !.result = returnToCli(q.callback, Configured("", q.fetched))]
  /\ UNCHANGED <<orgState, initialized, storage, sockets, calls, now, issued>>

\* The turn of a handler ends: what it emitted has left the object (output
\* gate), and the next event can be taken.
EndTurn ==
  /\ ~Ready
  /\ out' = Idle
  /\ UNCHANGED <<orgState, initialized, storage, sockets, calls, requests, now, issued>>

\* ------------------------------------------------------------------- Next
\* The auth messages of the runs: with the payload of a user the provider
\* knows, with a userId that is a property name of Object.prototype, and
\* without payload.
AuthPayloads ==
  {AuthPayload(t, u, EmailOf[u]) : t \in Tenants, u \in UserIds \cup PrototypeKeys}
  \cup {NoPayload}

\* The api requests of the runs: to an endpoint of the Linear API, and to
\* endpoints that do not begin with "/".
Endpoints == {<<"/", "graphql">>, <<".evil.tld", "/", "x">>, <<"@", "evil.tld", "/", "x">>}

ApiRequests == {ApiRequest(id, "POST", e, "query") : id \in CallIds, e \in Endpoints}

\* The api requests whose upstream is the Linear API.
LinearApiRequests ==
  {p \in ApiRequests : UrlHost(LinearApi \o p.endpoint) = "api.linear.app"}

\* The requests of Spec: those the Worker does not answer before it has
\* called the object or the provider's identity endpoint.  The webhooks are
\* the signed ones; u1 is the admin and u2 is not; the admin's state names
\* the tenant, and the viewer fetch returns the admin or nothing.
SpecWebhookRequests ==
  {r \in WebhookRequests : /\ ingressStatus(r.secret, r.body, r.signature) = 0
                           /\ r.secret # ""}

SpecUserArrivals ==
  {a \in UserArrivals : /\ decodeState(a.state).callback = GoodCallback
                        /\ callbackStatus(a.query, decodeState(a.state).callback) = 0
                        /\ a.exchange = "ok"
                        /\ a.admin <=> a.user = "u1"}

SpecAgentArrivals ==
  {a \in AgentArrivals : /\ decodeState(a.state) = OAuthState(GoodCallback, "agent", "T1")
                         /\ callbackStatus(a.query, decodeState(a.state).callback) = 0
                         /\ a.exchange = "ok"
                         /\ a.viewer # "u2"}

Next ==
  \/ /\ \E org \in Served : handleConnectionUpgrade(TRUE, org)
     /\ UNCHANGED clientVars
  \/ /\ \E s \in SockIds : webSocketClose(s)
     /\ UNCHANGED clientVars
  \/ /\ \E s \in SockIds, p \in AuthPayloads : handleAuth(s, p)
     /\ UNCHANGED clientVars
  \/ /\ \E s \in SockIds : handlePing(s)
     /\ UNCHANGED clientVars
  \/ /\ \E s \in SockIds, p \in LinearApiRequests : handleApiRelay(s, p)
     /\ UNCHANGED clientVars
  \/ /\ \E c \in calls, res \in RefreshResults : refreshOrgTokenReturn(c, res)
     /\ UNCHANGED clientVars
  \/ /\ \E c \in calls : \E res \in UpstreamResultsOf(c) : handleApiRelayReturn(c, res)
     /\ UNCHANGED clientVars
  \/ /\ \E r \in SpecWebhookRequests : handleWebhook(r.secret, r.body, r.signature)
     /\ UNCHANGED clientVars
  \/ /\ \E q \in requests, order \in Orders : handleForwardWebhook(q, order)
     /\ UNCHANGED clientVars
  \/ /\ \E a \in SpecUserArrivals : handleOAuthCallback(a)
     /\ UNCHANGED clientVars
  \/ /\ \E a \in SpecAgentArrivals : handleAgentOAuthCallback(a)
     /\ UNCHANGED clientVars
  \/ /\ \E q \in requests : handleSetOrgToken(q)
     /\ UNCHANGED clientVars
  \/ /\ \E q \in requests : handleAgentOAuthCallbackNoViewer(q)
     /\ UNCHANGED clientVars
  \/ /\ \E q \in requests : registerUserInOrg(q)
     /\ UNCHANGED clientVars
  \/ /\ \E q \in requests : handleRegisterUser(q)
     /\ UNCHANGED clientVars
  \/ /\ \E t \in Tenants : Recycle(t)
     /\ UNCHANGED clientVars
  \/ /\ Tick
     /\ UNCHANGED clientVars
  \/ /\ EndTurn
     /\ UNCHANGED clientVars

Spec == Init /\ [][Next]_vars

\* The relay with every api request of the runs, over the sessions of one
\* provisioned tenant: the admin provisions it, sessions are accepted and
\* authenticated, the token is refreshed when due.
NextRelay ==
  \/ /\ handleConnectionUpgrade(TRUE, "T1")
     /\ UNCHANGED clientVars
  \/ /\ \E s \in SockIds : webSocketClose(s)
     /\ UNCHANGED clientVars
  \/ /\ \E s \in SockIds : handleAuth(s, AuthPayload("T1", "u1", EmailOf["u1"]))
     /\ UNCHANGED clientVars
  \/ /\ \E s \in SockIds, p \in ApiRequests : handleApiRelay(s, p)
     /\ UNCHANGED clientVars
  \/ /\ \E c \in calls, res \in RefreshResults : refreshOrgTokenReturn(c, res)
     /\ UNCHANGED clientVars
  \/ /\ \E c \in calls : \E res \in UpstreamResultsOf(c) : handleApiRelayReturn(c, res)
     /\ UNCHANGED clientVars
  \/ /\ handleAgentOAuthCallback(Arrival("code", AgentState(GoodCallback, "T1"), "ok", "",
                                          FALSE, "T1", TRUE, TRUE, "u1"))
     /\ UNCHANGED clientVars
  \/ /\ \E q \in requests : handleSetOrgToken(q)
     /\ UNCHANGED clientVars
  \/ /\ \E q \in requests : registerUserInOrg(q)
     /\ UNCHANGED clientVars
  \/ /\ \E q \in requests : handleRegisterUser(q)
     /\ UNCHANGED clientVars
  \/ /\ Tick
     /\ UNCHANGED clientVars
  \/ /\ EndTurn
     /\ UNCHANGED clientVars

SpecRelay == Init /\ [][NextRelay]_vars

\* The Worker's routes with every request of the runs, over the sessions
\* and the provisioning of the tenant; no relay and no clock step.
NextWorker ==
  \/ /\ \E upgrade \in BOOLEAN, org \in Served \cup {""} : handleConnectionUpgrade(upgrade, org)
     /\ UNCHANGED clientVars
  \/ /\ \E s \in SockIds : webSocketClose(s)
     /\ UNCHANGED clientVars
  \/ /\ \E s \in SockIds, p \in AuthPayloads : handleAuth(s, p)
     /\ UNCHANGED clientVars
  \/ /\ \E s \in SockIds : handleUnknownMessage(s)
     /\ UNCHANGED clientVars
  \/ /\ \E r \in WebhookRequests : handleWebhook(r.secret, r.body, r.signature)
     /\ UNCHANGED clientVars
  \/ /\ \E q \in requests, order \in Orders : handleForwardWebhook(q, order)
     /\ UNCHANGED clientVars
  \/ /\ \E cb \in Callbacks : handleOAuth(cb)
     /\ UNCHANGED clientVars
  \/ /\ \E a \in UserArrivals : handleOAuthCallback(a)
     /\ UNCHANGED clientVars
  \/ /\ \E a \in AgentArrivals : handleAgentOAuthCallback(a)
     /\ UNCHANGED clientVars
  \/ /\ \E q \in requests : handleSetOrgToken(q)
     /\ UNCHANGED clientVars
  \/ /\ \E q \in requests : handleAgentOAuthCallbackNoViewer(q)
     /\ UNCHANGED clientVars
  \/ /\ \E q \in requests : registerUserInOrg(q)
     /\ UNCHANGED clientVars
  \/ /\ \E q \in requests : handleRegisterUser(q)
     /\ UNCHANGED clientVars
  \/ /\ \E t \in Tenants : Recycle(t)
     /\ UNCHANGED clientVars
  \/ /\ EndTurn
     /\ UNCHANGED clientVars

SpecWorker == Init /\ [][NextWorker]_vars

\* Both tenants active: sessions, provisioning, relay and webhooks of T1 and
\* of T2 side by side, with one request of each kind per tenant.
TenantsWebhookRequests ==
  {WebhookRequest("whsec", b, Hmac("whsec", b)) :
     b \in {"{org:T1,creator:u1}", "{org:T2,creator:u1}"}}

TenantsUserArrivals ==
  {Arrival("code", UserState(GoodCallback), "ok", "u2", FALSE, t, FALSE, FALSE, "") :
     t \in Tenants}

TenantsAgentArrivals ==
  {Arrival("code", AgentState(GoodCallback, o), "ok", "", FALSE, t, TRUE, TRUE, v) :
     o \in Tenants, t \in Tenants, v \in {"u1"}}

NextTenants ==
  \/ /\ \E org \in Tenants : handleConnectionUpgrade(TRUE, org)
     /\ UNCHANGED clientVars
  \/ /\ \E s \in SockIds : webSocketClose(s)
     /\ UNCHANGED clientVars
  \/ /\ \E s \in SockIds, p \in AuthPayloads : handleAuth(s, p)
     /\ UNCHANGED clientVars
  \/ /\ \E s \in SockIds, p \in {x \in LinearApiRequests : x.id = "id1"} : handleApiRelay(s, p)
     /\ UNCHANGED clientVars
  \/ /\ \E c \in calls, res \in {"ok", "rejected"} : refreshOrgTokenReturn(c, res)
     /\ UNCHANGED clientVars
  \/ /\ \E c \in calls : \E res \in {r \in UpstreamResultsOf(c) : r.status = 200} :
           handleApiRelayReturn(c, res)
     /\ UNCHANGED clientVars
  \/ /\ \E r \in TenantsWebhookRequests : handleWebhook(r.secret, r.body, r.signature)
     /\ UNCHANGED clientVars
  \/ /\ \E q \in requests, order \in Orders : handleForwardWebhook(q, order)
     /\ UNCHANGED clientVars
  \/ /\ \E a \in TenantsUserArrivals : handleOAuthCallback(a)
     /\ UNCHANGED clientVars
  \/ /\ \E a \in TenantsAgentArrivals : handleAgentOAuthCallback(a)
     /\ UNCHANGED clientVars
  \/ /\ \E q \in requests : handleSetOrgToken(q)
     /\ UNCHANGED clientVars
  \/ /\ \E q \in requests : registerUserInOrg(q)
     /\ UNCHANGED clientVars
  \/ /\ \E q \in requests : handleRegisterUser(q)
     /\ UNCHANGED clientVars
  \/ /\ \E t \in Tenants : Recycle(t)
     /\ UNCHANGED clientVars
  \/ /\ Tick
     /\ UNCHANGED clientVars
  \/ /\ EndTurn
     /\ UNCHANGED clientVars

SpecTenants == Init /\ [][NextTenants]_vars

\* ====================================================== ConnectionClient
\* One client (packages/connection/src/client.ts) and, for what reaches it,
\* the proxy's answers built with the broker's own operators.  Every handler
\* of the client runs to completion (it awaits nothing but onWebhook).
\* Timers fire at any moment after they were set; a socket can close at any
\* moment; the proxy answers a request at any moment while its socket lives.

\* ConnectionClientOptions of the client.
ClientOptions == [organizationId |-> "T1", userId |-> "u1", email |-> "e1"]

\* The number of sockets the client has created and the model still holds.
Created == Cardinality({k \in ClientSocks : readyState[k] # "none"})

\* WebSocket.OPEN of the socket this.ws refers to.
WsOpen == ws # 0 /\ readyState[ws] = "open"

\* What a turn of the client looks like in `out`: the socket and request id
\* it is about, the messages it sent (to |-> the socket) or received.
ClientTurn(op, k, id) == [Quiet(op, "") EXCEPT !.ws = k, !.id = id]

\* send (L162-166) with the sockets in the states rs: the message goes out
\* on this.ws when this.ws is OPEN, and is dropped otherwise.
send(rs, m) == IF ws # 0 /\ rs[ws] = "open" THEN <<[to |-> ws, msg |-> m]>> ELSE <<>>

ClientSends(m) == send(readyState, m)

\* What the proxy then holds of the messages a turn sent.
Asks(sent, type, id) ==
  IF sent # <<>> THEN SetToBag({[sock |-> sent[1].to, type |-> type, id |-> id]})
  ELSE EmptyBag

\* The proxy holds an unanswered frame of this type and id on socket k.
Asked(k, type, id) == BagIn([sock |-> k, type |-> type, id |-> id], asked)

\* The frames of socket k are lost with it.
AskedWithout(k) == [r \in {x \in DOMAIN asked : x.sock # k} |-> asked[r]]

ClientMessage(type, id) == [Envelope EXCEPT !.type = type, !.id = id]

\* resolve / reject of a promise: only the first call settles it.
Settle(p, state, value) ==
  IF p.state = "pending"
    THEN [state |-> state, value |-> value, settles |-> p.settles + 1]
    ELSE [p EXCEPT !.settles = @ + 1]

\* Variant of RejectAll: no promise is rejected.
RejectAll_none(pr, ids, error) == pr

\* cleanup, L192-194: pending.reject(new Error(error)) for every entry.
RejectAll(pr, ids, error) ==
  [id \in DOMAIN pr |-> IF id \in ids THEN Settle(pr[id], "rejected", error) ELSE pr[id]]

\* Variant of clearTimeout: the timer stays pending.
clearTimeout_noop(n, handle) == n

\* cleanup, L187-190: clearTimeout(this.reconnectTimeout) when the handle is
\* set; n: the pending timers.  Clearing a timer that has fired does nothing.
clearTimeout(n, handle) == IF handle = "armed" THEN n - 1 ELSE n

\* Variant of cleanup: the timers are cleared and the map is left alone.
cleanup_timersOnly ==
  /\ pingInterval' = FALSE
  /\ pingTimers' = IF pingInterval THEN pingTimers - 1 ELSE pingTimers
  /\ promises' = promises
  /\ pendingRequests' = pendingRequests

\* cleanup(): the ping interval cleared, every pending request rejected,
\* the map emptied.  The conjuncts that cleanup shares with its callers,
\* which write reconnectTimeout themselves (cleared, then set again by
\* scheduleReconnect).
cleanup ==
  /\ pingInterval' = FALSE
  /\ pingTimers' = IF pingInterval THEN pingTimers - 1 ELSE pingTimers
  /\ promises' = RejectAll(promises, pendingRequests, "Connection closed")
  /\ pendingRequests' = {}

\* connect(): a new socket, which this.ws now refers to.  It takes the first
\* identity no socket holds.
connect(by) ==
  /\ Created < MaxConnects
  /\ LET k == Min({x \in ClientSocks : readyState[x] = "none"}) IN
     /\ readyState' = [readyState EXCEPT ![k] = "connecting"]
     /\ ws' = k
     /\ connects' = [connects EXCEPT ![k] = [NoPromise EXCEPT !.state = "pending"]]
     /\ out' = [ClientTurn(by, k, "") EXCEPT !.begins = TRUE]

\* The user calls connect(): at any moment, whatever this.ws refers to.
userConnect ==
  /\ Ready
  /\ connect("connect")
  /\ UNCHANGED <<shouldReconnect, pingInterval, pingTimers, reconnectTimeout, reconnectTimers,
                 pendingRequests, apiTimers, promises, asked>>
  /\ UNCHANGED brokerVars

\* The timer of scheduleReconnect fires.
reconnectFires ==
  /\ Ready
  /\ reconnectTimers > 0
  /\ reconnectTimers' = reconnectTimers - 1
  /\ reconnectTimeout' = IF reconnectTimers = 1 /\ reconnectTimeout = "armed" THEN "fired"
                          ELSE reconnectTimeout
  /\ connect("reconnect")
  /\ UNCHANGED <<shouldReconnect, pingInterval, pingTimers,
                 pendingRequests, apiTimers, promises, asked>>
  /\ UNCHANGED brokerVars

\* authenticate() in the onopen of socket k: send({type: 'auth', payload})
\* with the payload built from the options.  send looks at this.ws, not at
\* the socket whose handler runs: the frame goes out on this.ws when that is
\* OPEN, be it k, which has just opened, or the socket of a later connect().
authenticate(k) ==
  send([readyState EXCEPT ![k] = "open"],
       [Envelope EXCEPT !.type = "auth",
          !.organizationId = ClientOptions.organizationId,
          !.userId = ClientOptions.userId,
          !.email = ClientOptions.email])

\* ws.onopen of socket k: authenticate().
onopen(k) ==
  /\ Ready
  /\ readyState[k] = "connecting"
  /\ readyState' = [readyState EXCEPT ![k] = "open"]
  /\ LET sent == authenticate(k) IN
     /\ asked' = asked (+) Asks(sent, "auth", "")
     /\ out' = [ClientTurn("onopen", k, "") EXCEPT !.msgs = sent]
  /\ UNCHANGED <<ws, shouldReconnect, pingInterval, pingTimers, reconnectTimeout, reconnectTimers,
                 pendingRequests, apiTimers, promises, connects>>
  /\ UNCHANGED brokerVars

\* A message reaches ws.onmessage of socket k while the socket is open or
\* closing.
Delivers(k) == readyState[k] \in {"open", "closing"}

\* ws.onmessage, case 'auth_response': the proxy answers the auth of k.
onmessageAuthResponse(k, success) ==
  /\ Ready
  /\ Delivers(k)
  /\ Asked(k, "auth", "")
  /\ asked' = asked (-) SetToBag({[sock |-> k, type |-> "auth", id |-> ""]})
  /\ pingTimers' = IF success THEN pingTimers + 1 ELSE pingTimers
  /\ pingInterval' = (success \/ pingInterval)
  /\ connects' = [connects EXCEPT ![k] =
                    IF success THEN Settle(@, "resolved", "")
                    ELSE Settle(@, "rejected", "User not registered")]
  /\ out' = [ClientTurn("auth_response", k, "") EXCEPT
               !.msgs = <<[to |-> k, msg |-> IF success THEN AuthSuccess(ClientOptions)
                                              ELSE AuthFailure("User not registered")]>>]
  /\ UNCHANGED <<ws, readyState, shouldReconnect, reconnectTimeout, reconnectTimers,
                 pendingRequests, apiTimers, promises>>
  /\ UNCHANGED brokerVars

\* ws.onmessage, cases 'webhook' and 'pong': onWebhook is called, or nothing.
onmessageOther(k, m) ==
  /\ Ready
  /\ Delivers(k)
  /\ out' = [ClientTurn(m.type, k, "") EXCEPT !.msgs = <<[to |-> k, msg |-> m]>>]
  /\ UNCHANGED clientVars
  /\ UNCHANGED brokerVars

\* apiCall(): the n-th call takes the n-th id.
Made == Cardinality({id \in Uuids : promises[id].state # "none"})

apiCall ==
  /\ Ready
  /\ Made < MaxApiCalls
  /\ LET id == UuidNames[Made + 1] IN
     /\ pendingRequests' = pendingRequests \cup {id}
     /\ promises' = [promises EXCEPT ![id] = [NoPromise EXCEPT !.state = "pending"]]
     /\ apiTimers' = apiTimers \cup {id}
     /\ asked' = asked (+) Asks(ClientSends(ClientMessage("api", id)), "api", id)
     /\ out' = [ClientTurn("apiCall", ws, id) EXCEPT !.begins = TRUE,
                  !.msgs = ClientSends(ClientMessage("api", id))]
  /\ UNCHANGED <<ws, readyState, shouldReconnect, pingInterval, pingTimers,
                 reconnectTimeout, reconnectTimers, connects>>
  /\ UNCHANGED brokerVars

\* Variant of PendingAfterTimeout: the entry stays in the map.
PendingAfterTimeout_kept(pending, id) == pending

\* apiCall, L141-142: this.pendingRequests.delete(id) in the timer callback.
PendingAfterTimeout(pending, id) == pending \ {id}

\* Variant of apiCallTimeout: the callback rejects without looking at the map.
apiCallTimeout_unchecked(id) ==
  /\ Ready
  /\ id \in apiTimers
  /\ apiTimers' = apiTimers \ {id}
  /\ pendingRequests' = PendingAfterTimeout(pendingRequests, id)
  /\ promises' = [promises EXCEPT ![id] = Settle(@, "rejected", "API call timeout")]
  /\ out' = [ClientTurn("timeout", 0, id) EXCEPT !.begins = id \in pendingRequests]
  /\ UNCHANGED <<ws, readyState, shouldReconnect, pingInterval, pingTimers,
                 reconnectTimeout, reconnectTimers, connects, asked>>
  /\ UNCHANGED brokerVars

\* The callback of the 30 s timer of apiCall (L140-145).
apiCallTimeout(id) ==
  /\ Ready
  /\ id \in apiTimers
  /\ apiTimers' = apiTimers \ {id}
  /\ IF id \in pendingRequests
       THEN /\ pendingRequests' = PendingAfterTimeout(pendingRequests, id)
            /\ promises' = [promises EXCEPT ![id] = Settle(@, "rejected", "API call timeout")]
       ELSE UNCHANGED <<pendingRequests, promises>>
  /\ out' = [ClientTurn("timeout", 0, id) EXCEPT !.begins = id \in pendingRequests]
  /\ UNCHANGED <<ws, readyState, shouldReconnect, pingInterval, pingTimers,
                 reconnectTimeout, reconnectTimers, connects, asked>>
  /\ UNCHANGED brokerVars

\* The answers of the upstream to a relayed call, as the broker sees them:
\* those of UpstreamResults and a 2xx answer whose body is not JSON.
ClientUpstreamResults ==
  UpstreamResults \cup
    {[kind |-> "text", status |-> 204, body |-> "", error |-> "Unexpected end of JSON input"]}

\* The api_response messages the broker sends for a relayed request id:
\* that of handleApiRelay for every upstream answer.  upstream: the answer
\* of the upstream, status 0 when the fetch threw.
NoUpstream == [kind |-> "none", status |-> 0, body |-> "", error |-> ""]

BrokerAnswers(k, id) ==
  {[msg |-> ApiResponseFor(Call("upstream", k, ApiRequest(id, "POST", <<"/", "graphql">>, ""),
                                ClientOptions.organizationId, ""), res),
    upstream |-> IF res.kind = "threw" THEN NoUpstream ELSE res] : res \in ClientUpstreamResults}

\* Variant of Matching: the entry of any pending request.
Matching_anyPending(pending, id) ==
  IF pending # {} THEN CHOOSE x \in pending : TRUE ELSE ""

\* handleApiResponse, L150-151: the pending entry of response.id, "" if none.
Matching(pending, id) == IF id \in pending THEN id ELSE ""

\* handleApiResponse, L155-159: how the response settles the promise.
\* `error ?? ...`: the broker's envelope carries error only when it is set.
Settlement(response) ==
  IF response.error # "" \/ response.status >= 400
    THEN [state |-> "rejected",
          value |-> IF response.error # "" THEN response.error
                    ELSE "API error: " \o ToString(response.status)]
    ELSE [state |-> "resolved", value |-> response.body]

\* ws.onmessage, case 'api_response': the proxy answers request id of k.
onmessageApiResponse(k, id, a) ==
  /\ Ready
  /\ Delivers(k)
  /\ Asked(k, "api", id)
  /\ asked' = asked (-) SetToBag({[sock |-> k, type |-> "api", id |-> id]})
  /\ LET entry == Matching(pendingRequests, a.msg.id)
         how   == Settlement(a.msg) IN
     /\ IF entry = ""
          THEN UNCHANGED <<pendingRequests, promises>>
          ELSE /\ pendingRequests' = pendingRequests \ {a.msg.id}
               /\ promises' = [promises EXCEPT ![entry] = Settle(@, how.state, how.value)]
     /\ out' = [ClientTurn("api_response", k, id) EXCEPT
                  !.begins = entry # "",
                  !.msgs = <<[to |-> k, msg |-> a.msg]>>,
                  !.http = a.upstream.status,
                  !.body = a.upstream.body]
  /\ UNCHANGED <<ws, readyState, shouldReconnect, pingInterval, pingTimers,
                 reconnectTimeout, reconnectTimers, apiTimers, connects>>
  /\ UNCHANGED brokerVars

\* Variant of ReconnectsAfterClose: no reconnect is scheduled.
ReconnectsAfterClose_never(should) == FALSE

\* Variant of ReconnectsAfterClose: shouldReconnect is not looked at.
ReconnectsAfterClose_always(should) == TRUE

\* ws.onclose, L86: if (this.shouldReconnect).
ReconnectsAfterClose(should) == should

\* Variant of onclose: the close rejects the promise of the connect() that
\* made the socket.
onclose_rejecting(k) ==
  /\ Ready
  /\ readyState[k] \in {"connecting", "open", "closing"}
  /\ readyState' = [readyState EXCEPT ![k] = "closed"]
  /\ asked' = AskedWithout(k)
  /\ cleanup
  /\ reconnectTimeout' = IF ReconnectsAfterClose(shouldReconnect) THEN "armed" ELSE "null"
  /\ reconnectTimers' = clearTimeout(reconnectTimers, reconnectTimeout)
                          + (IF ReconnectsAfterClose(shouldReconnect) THEN 1 ELSE 0)
  /\ connects' = [connects EXCEPT ![k] =
                    IF @.state = "pending" THEN Settle(@, "rejected", "Connection closed")
                    ELSE @]
  /\ out' = ClientTurn("onclose", k, "")
  /\ UNCHANGED <<ws, shouldReconnect, apiTimers>>
  /\ UNCHANGED brokerVars

\* ws.onclose of socket k: the socket failed to open, the peer or the
\* network closed it, or the close started by disconnect() completed.
onclose(k) ==
  /\ Ready
  /\ readyState[k] \in {"connecting", "open", "closing"}
  /\ readyState' = [readyState EXCEPT ![k] = "closed"]
  /\ asked' = AskedWithout(k)
  /\ cleanup
  /\ reconnectTimeout' = IF ReconnectsAfterClose(shouldReconnect) THEN "armed" ELSE "null"
  /\ reconnectTimers' = clearTimeout(reconnectTimers, reconnectTimeout)
                          + (IF ReconnectsAfterClose(shouldReconnect) THEN 1 ELSE 0)
  /\ out' = ClientTurn("onclose", k, "")
  /\ UNCHANGED <<ws, shouldReconnect, apiTimers, connects>>
  /\ UNCHANGED brokerVars

\* disconnect()
disconnect ==
  /\ Ready
  /\ shouldReconnect' = FALSE
  /\ cleanup
  /\ reconnectTimeout' = "null"
  /\ reconnectTimers' = clearTimeout(reconnectTimers, reconnectTimeout)
  /\ readyState' = IF ws # 0 /\ readyState[ws] \in {"connecting", "open"}
                     THEN [readyState EXCEPT ![ws] = "closing"] ELSE readyState
  /\ ws' = 0
  /\ out' = [ClientTurn("disconnect", ws, "") EXCEPT !.begins = TRUE]
  /\ UNCHANGED <<apiTimers, connects, asked>>
  /\ UNCHANGED brokerVars

\* The callback of the interval of startPing.
pingFires ==
  /\ Ready
  /\ pingTimers > 0
  /\ out' = [ClientTurn("ping", ws, "") EXCEPT !.msgs = ClientSends(ClientMessage("ping", ""))]
  /\ UNCHANGED clientVars
  /\ UNCHANGED brokerVars

\* A closed socket that this.ws no longer refers to is unreachable: nothing
\* of it is read again, and a later socket takes its identity.
collect(k) ==
  /\ Ready
  /\ readyState[k] = "closed"
  /\ ws # k
  /\ readyState' = [readyState EXCEPT ![k] = "none"]
  /\ connects' = [connects EXCEPT ![k] = NoPromise]
  /\ out' = ClientTurn("collect", k, "")
  /\ UNCHANGED <<ws, shouldReconnect, pingInterval, pingTimers, reconnectTimeout, reconnectTimers,
                 pendingRequests, apiTimers, promises, asked>>
  /\ UNCHANGED brokerVars

\* The life of the client's connections, with one apiCall.
NextClient ==
  \/ userConnect
  \/ reconnectFires
  \/ \E k \in ClientSocks : onopen(k)
  \/ \E k \in ClientSocks, success \in BOOLEAN : onmessageAuthResponse(k, success)
  \/ \E k \in ClientSocks : onmessageOther(k, Pong)
  \/ apiCall /\ Made = 0
  \/ \E id \in Uuids : apiCallTimeout(id)
  \/ \E k \in ClientSocks, id \in Uuids :
       \E a \in BrokerAnswers(k, id) : onmessageApiResponse(k, id, a)
  \/ \E k \in ClientSocks : onclose(k)
  \/ disconnect
  \/ pingFires
  \/ EndTurn /\ UNCHANGED clientVars

SpecClient == Init /\ [][NextClient]_vars

\* The apiCalls of the client over its first connection.
NextClientCalls ==
  \/ userConnect /\ Created = 0
  \/ \E k \in ClientSocks : onopen(k)
  \/ \E k \in ClientSocks, success \in BOOLEAN : onmessageAuthResponse(k, success)
  \/ apiCall
  \/ \E id \in Uuids : apiCallTimeout(id)
  \/ \E k \in ClientSocks, id \in Uuids :
       \E a \in BrokerAnswers(k, id) : onmessageApiResponse(k, id, a)
  \/ \E k \in ClientSocks : onclose(k)
  \/ disconnect
  \/ EndTurn /\ UNCHANGED clientVars

SpecClientCalls == Init /\ [][NextClientCalls]_vars

\* The same apiCalls in a client that runs for ever: the 30 s timer of an
\* apiCall is never cleared, so it fires, and a turn that began ends.
SpecApiCalls ==
  /\ Init
  /\ [][NextClientCalls]_vars
  /\ WF_vars(EndTurn /\ UNCHANGED clientVars)
  /\ \A id \in Uuids : SF_vars(apiCallTimeout(id))

\* The connections of a client that runs for ever, without apiCalls: the
\* user calls connect() once, and disconnect() at any moment.  An armed
\* timer fires unless it is cleared, and a turn that began ends: the event
\* loop runs every callback that is due.
NextReconnect ==
  \/ userConnect /\ ws = 0 /\ shouldReconnect
  \/ reconnectFires
  \/ \E k \in ClientSocks : onopen(k)
  \/ \E k \in ClientSocks, success \in BOOLEAN : onmessageAuthResponse(k, success)
  \/ \E k \in ClientSocks : onmessageOther(k, Pong)
  \/ \E k \in ClientSocks : onclose(k)
  \/ disconnect
  \/ pingFires
  \/ \E k \in ClientSocks : collect(k)
  \/ EndTurn /\ UNCHANGED clientVars

SpecReconnect ==
  /\ Init
  /\ [][NextReconnect]_vars
  /\ WF_vars(EndTurn /\ UNCHANGED clientVars)
  /\ SF_vars(reconnectFires)
  /\ SF_vars(\E k \in ClientSocks : collect(k))

\* ================================================================= claims
OpenSockets == {s \in SockIds : sockets[s].st = "open"}

Sent == {out.msgs[i] : i \in 1..Len(out.msgs)}

\* C1 (as claimed): every open session whose attachment is authenticated
\* carries a userId that is a key of the users map of its tenant's persisted
\* record (and of the in-memory copy once the object is initialized), and
\* that tenant has a trust token; a session is accepted unauthenticated and
\* becomes authenticated only in the turn of an auth message on that same
\* session that was answered with success.
C1_State ==
  \A s \in OpenSockets :
    sockets[s].att.authenticated =>
      /\ sockets[s].att.userId \in storage[sockets[s].org].users
      /\ storage[sockets[s].org].agentToken.present
      /\ initialized[sockets[s].org] =>
           /\ sockets[s].att.userId \in orgState[sockets[s].org].users
           /\ orgState[sockets[s].org].agentToken.present

C1_Step ==
  \A s \in SockIds :
    /\ (sockets[s].st = "free" /\ sockets'[s].st = "open")
          => ~sockets'[s].att.authenticated
    /\ (~sockets[s].att.authenticated /\ sockets'[s].att.authenticated)
          => /\ sockets[s].st = "open"
             /\ out'.op = "auth" /\ out'.ws = s
             /\ Len(out'.msgs) = 1
             /\ out'.msgs[1].to = s
             /\ out'.msgs[1].msg.type = "auth_response"
             /\ out'.msgs[1].msg.success

C1_SessionAuthentication == [] C1_State /\ [][C1_Step]_vars

\* C2: an auth message handled while the tenant has no trust token is
\* answered with exactly one auth_response {success: false, error:
\* 'Organization not configured'} on that session, and the session is
\* unauthenticated afterwards, whatever userId the payload names.
C2_AuthWithoutTrustToken ==
  (out.op = "auth" /\ ~storage[out.org].agentToken.present) =>
     /\ out.msgs = <<[to |-> out.ws, msg |-> [Envelope EXCEPT !.type = "auth_response",
                        !.error = "Organization not configured"]]>>
     /\ ~sockets[out.ws].att.authenticated

\* Witness of C2: an auth turn for userId u2 on an unprovisioned tenant.
C2_Witness ==
  /\ out.op = "auth" /\ out.user = "u2"
  /\ ~storage[out.org].agentToken.present
  /\ Len(out.msgs) = 1

\* C3 (as claimed): once the tenant's record holds a trust token, an auth
\* message for userId u is answered with success exactly if u is a key of
\* the users map of the record, i.e. exactly if registerUser(u) has been
\* acknowledged.
C3_AuthFollowsRegistration ==
  (out.op = "auth" /\ storage[out.org].agentToken.present) =>
     /\ Len(out.msgs) = 1
     /\ out.msgs[1].msg.success <=> out.user \in storage[out.org].users
     /\ out.msgs[1].msg.success =>
          sockets[out.ws].att = [authenticated |-> TRUE, userId |-> out.user,
                                 email |-> EmailOf[out.user]]

\* C4: an api message on a session that is not authenticated is answered in
\* the same turn with one api_response {id, status: 401, error} carrying the
\* request's id; the turn issues neither a refresh exchange nor an upstream
\* call, and leaves no activation waiting for that request.
C4_UnauthenticatedRelay ==
  (out.op = "api" /\ ~sockets[out.ws].att.authenticated) =>
     /\ Len(out.msgs) = 1
     /\ out.msgs[1].to = out.ws
     /\ out.msgs[1].msg.type = "api_response"
     /\ out.msgs[1].msg.id = out.id
     /\ out.msgs[1].msg.status = 401
     /\ out.msgs[1].msg.error # ""
     /\ out.refresh = "" /\ out.upstream = ""
     /\ \A c \in calls : ~(c.ws = out.ws /\ c.id = out.id)

\* Witness of C4: an api message on an unauthenticated session of a tenant
\* whose token is due for refresh, while another session is authenticated.
C4_Witness ==
  /\ out.op = "api" /\ ~sockets[out.ws].att.authenticated
  /\ orgState[out.org].agentToken.present
  /\ StartsRefresh(orgState[out.org].agentToken, now)
  /\ \E s \in OpenSockets : sockets[s].att.authenticated

\* C5 (as claimed): no message sent on a session and no result handed to the local
\* callback carries an access token or a refresh token of a tenant.
TokenStrings ==
  {AccessNames[i] : i \in DOMAIN AccessNames} \cup {RefreshNames[i] : i \in DOMAIN RefreshNames}

C5_TrustTokenNotExposed ==
  /\ \A m \in Sent :
       {m.msg.error, m.msg.organizationId, m.msg.id, m.msg.body, m.msg.signature}
          \cap TokenStrings = {}
  /\ {out.result.action, out.result.error, out.result.userId,
      out.result.organizationId, out.result.callback} \cap TokenStrings = {}

\* C6: the target of a forwarded webhook is (a) an authenticated session of
\* the tenant whose userId equals the routing key of the body, if there is
\* one; (b) otherwise, also when the body has no routing key or does not
\* parse, an authenticated session of the tenant; (c) none, and then nothing
\* is sent.  This holds of targetWs for every tenant, body and listing
\* order of the sockets between any two turns, and of the message the turn
\* of handleForwardWebhook sent, against the sessions as they are when it
\* looks them up.
RoutingKey(body) == IF Parsable(body) THEN BodyCreatorId(body) ELSE ""

RightTarget(t, body, w) ==
  LET A == {s \in OpenSockets : sockets[s].org = t /\ sockets[s].att.authenticated}
      M == {s \in A : sockets[s].att.userId = RoutingKey(body)}
  IN  /\ (RoutingKey(body) # "" /\ M # {}) => w \in M
      /\ A # {} => w \in A
      /\ A = {} => w = 0

C6_WebhookTargetOrder ==
  /\ Ready => \A t \in Tenants, b \in Bodies, o \in Orders :
                 RightTarget(t, b, targetWs(t, b, o))
  /\ (out.op = "webhook" /\ out.org # "") =>
       /\ RightTarget(out.org, out.body, out.ws)
       /\ out.ws = 0 => out.msgs = <<>>
       /\ out.ws # 0 => /\ Len(out.msgs) = 1
                        /\ out.msgs[1].to = out.ws
                        /\ out.msgs[1].msg.type = "webhook"

\* Witness of C6: a webhook delivered to the socket of the user its routing
\* key names while another socket is authenticated as another user.
C6_Witness ==
  /\ out.op = "webhook" /\ Len(out.msgs) = 1
  /\ sockets[out.ws].att.userId = RoutingKey(out.body)
  /\ \E s \in OpenSockets : /\ sockets[s].att.authenticated
                             /\ sockets[s].att.userId # RoutingKey(out.body)

\* C7: the ingress answers 200 to a webhook only if the turn sent exactly
\* one webhook message, with the raw body as received, to an open
\* authenticated session of the tenant the body names; it answers 503
\* whenever the webhook was forwarded and that tenant has no authenticated
\* session.
C7_WebhookDeliveryReported ==
  out.op = "webhook" =>
    /\ out.http = 200 =>
         /\ Len(out.msgs) = 1
         /\ out.msgs[1].msg.type = "webhook"
         /\ out.msgs[1].msg.body = out.body
         /\ out.msgs[1].to \in OpenSockets
         /\ sockets[out.msgs[1].to].att.authenticated
         /\ sockets[out.msgs[1].to].org = BodyOrganizationId(out.body)
    /\ out.http # 200 => out.msgs = <<>>
    /\ (out.org # "" /\ ~\E s \in OpenSockets :
                          /\ sockets[s].org = BodyOrganizationId(out.body)
                          /\ sockets[s].att.authenticated)
         => out.http = 503

\* Witness of C7: a forwarded webhook answered 503 while a session of the
\* tenant is open but not authenticated.
C7_Witness ==
  /\ out.op = "webhook" /\ out.org # "" /\ out.http = 503
  /\ \E s \in OpenSockets : sockets[s].org = out.org

\* C8: an api_response is sent only in a turn of handleApiRelay, on the
\* socket that issued the request of that turn and with its id; a request
\* answered without an await gets one api_response in its turn; a request
\* that waits gets none while it waits and, when its upstream fetch returns
\* (2xx, error status or exception), one api_response if its socket is still
\* open; no activation ends any other way.
C8_State ==
  /\ \A m \in Sent :
       m.msg.type = "api_response" =>
          /\ out.op \in {"api", "relayed"}
          /\ m.to = out.ws /\ m.msg.id = out.id
  /\ out.op \in {"api", "relayed", "refreshed"} => Len(out.msgs) <= 1

C8_Step ==
  /\ \A c \in calls \ calls' :
       \/ /\ c.pc = "upstream"
          /\ out'.op = "relayed" /\ out'.ws = c.ws /\ out'.id = c.id
          /\ sockets[c.ws].st = "open" =>
               /\ Len(out'.msgs) = 1
               /\ out'.msgs[1].msg.type = "api_response"
       \/ /\ c.pc = "refresh"
          /\ out'.msgs = <<>>
          /\ \E d \in calls' \ calls : d.pc = "upstream" /\ d.ws = c.ws /\ d.id = c.id
  /\ (Ready /\ out'.op = "api") =>
       \/ /\ calls' = calls
          /\ Len(out'.msgs) = 1
          /\ out'.msgs[1].msg.type = "api_response"
       \/ /\ out'.msgs = <<>>
          /\ \E d \in calls' \ calls : d.ws = out'.ws /\ d.id = out'.id

C8_ApiResponseRouting == [] C8_State /\ [][C8_Step]_vars

\* Witness of C8: the answer to one of two calls that were waiting with the
\* same id on different sockets.
C8_Witness ==
  /\ out.op = "relayed" /\ Len(out.msgs) = 1
  /\ \E c \in calls : c.id = out.id /\ c.ws # out.ws

\* C9 (as claimed): at most one refresh-token exchange of a tenant is
\* outstanding at any time.
C9_SingleRefreshInFlight ==
  \A t \in Tenants : Cardinality({c \in calls : c.org = t /\ c.pc = "refresh"}) <= 1

\* C10 (as claimed): no operation of a tenant's object begins while an
\* earlier operation of that object is suspended at an await (a relay call
\* at its refresh or upstream fetch, a request at request.json()).
C10_SingleWriter ==
  [][\A t \in Tenants :
       (\/ \E c \in calls : c.org = t
        \/ \E q \in requests : q.org = t /\ q.pc \in ObjectPcs)
          => ~(out'.begins /\ out'.org = t)]_vars

\* C11: when the refresh-token exchange of a relay call fails, the stored
\* token (in memory and in storage) is what it was, the call goes on to its
\* upstream fetch with the access token that is stored, nothing is sent, and
\* the sockets and the other waiting calls of the tenant are left alone.
C11_Step ==
  \A c \in calls :
    (c.pc = "refresh" /\ c \notin calls' /\ issued' = issued) =>
      /\ orgState' = orgState
      /\ storage' = storage
      /\ initialized' = initialized
      /\ sockets' = sockets
      /\ calls' = (calls \ {c}) \cup
                     {[c EXCEPT !.pc = "upstream",
                                !.bearer = orgState[c.org].agentToken.accessToken]}
      /\ out'.op = "refreshed"
      /\ out'.upstream = orgState[c.org].agentToken.accessToken
      /\ out'.upstream # ""
      /\ out'.msgs = <<>>

C11_RefreshFailureKeepsToken == [][C11_Step]_vars

\* A refresh has returned, the stored token is still the one that needs a
\* refresh, and the call has issued its upstream fetch with it.
C11_Witness ==
  /\ out.op = "refreshed"
  /\ StartsRefresh(orgState[out.org].agentToken, now)
  /\ storage[out.org] = orgState[out.org]
  /\ out.upstream = orgState[out.org].agentToken.accessToken
  /\ \E c \in calls : /\ c.pc = "upstream" /\ c.ws = out.ws /\ c.id = out.id
                        /\ c.org = out.org /\ c.bearer = out.upstream

\* C12: a step of an operation on one tenant's object leaves every other
\* tenant's in-memory state, persisted record, sessions, waiting calls and
\* suspended requests as they were; an accepted session belongs to the object named by the org
\* parameter of its connect request and every message of a turn goes to a
\* session of the object the turn ran on, so a webhook for one tenant is
\* never delivered to a session of another.
C12_State ==
  /\ \A s \in OpenSockets : sockets[s].org \in Tenants
  /\ (out.op = "connect" /\ out.http = 101) =>
        sockets[out.ws].st = "open" /\ sockets[out.ws].org = out.org
  /\ \A m \in Sent : sockets[m.to].st = "open" /\ sockets[m.to].org = out.org
  /\ (out.op = "webhook" /\ out.msgs # <<>>) => out.org = BodyOrganizationId(out.body)

C12_Step ==
  \A t \in Tenants :
    out'.org # t =>
      /\ orgState'[t] = orgState[t]
      /\ initialized'[t] = initialized[t]
      /\ storage'[t] = storage[t]
      /\ \A s \in SockIds : (sockets[s].org = t \/ sockets'[s].org = t) => sockets'[s] = sockets[s]
      /\ {c \in calls' : c.org = t} = {c \in calls : c.org = t}
      /\ {q \in requests' : q.org = t} = {q \in requests : q.org = t}

C12_TenantIsolation == [] C12_State /\ [][C12_Step]_vars

\* A webhook for T1 is delivered to a session of T1 while T2 is configured
\* and has an authenticated session of the user the webhook names.
C12_Witness ==
  /\ out.op = "webhook"
  /\ out.org = "T1"
  /\ out.msgs # <<>>
  /\ \E s \in OpenSockets :
       /\ sockets[s].org = "T2"
       /\ sockets[s].att.authenticated
       /\ sockets[s].att.userId = BodyCreatorId(out.body)
  /\ storage["T2"].agentToken.present
  /\ storage["T1"].agentToken # storage["T2"].agentToken

\* C13: the phase-A callback, once the code exchange and the identity fetch
\* have succeeded, goes on to register the user when the tenant's record
\* holds a trust token (admin or not), and the registration it then asks
\* the object for stores the user and reports 'joined'; otherwise it redirects an
\* admin to phase B with the state {flow 'agent', the tenant, the callback it
\* was given} and posts nothing, and reports 'org_not_configured' to a
\* non-admin; in no case does it change a trust token.
C13_Step ==
  /\ (Ready /\ out'.op = "has_org_token") =>
       LET t  == out'.org
           cb == out'.result.callback IN
       /\ issued' = issued
       /\ storage' = storage
       /\ cb # ""
       /\ IF storage[t].agentToken.present
            THEN /\ out'.http = 0
                 /\ ~out'.result.posted
                 /\ requests' = requests \cup
                      {[NoRequest EXCEPT !.pc = "joined", !.org = t, !.flow = "user",
                          !.user = out'.user, !.admin = out'.admin, !.callback = cb,
                          !.fetched = t]}
          ELSE IF out'.admin
            THEN /\ out'.http = 302
                 /\ ~out'.result.posted
                 /\ decodeState(out'.redirect) = OAuthState(cb, "agent", t)
                 /\ requests' = requests
          ELSE /\ out'.result = returnToCli(cb, Failure("org_not_configured"))
               /\ ~out'.result.success
               /\ requests' = requests
  /\ out'.op = "register_request" =>
       /\ storage' = storage
       /\ issued' = issued
       /\ \E q \in requests : /\ q.pc \in {"joined", "viewer"}
                               /\ q.org = out'.org
                               /\ q.user = out'.user
                               /\ requests' = (requests \ {q}) \cup {[q EXCEPT !.pc = "register"]}
  /\ out'.op = "register_user" =>
       LET t  == out'.org
           cb == out'.result.callback IN
       /\ issued' = issued
       /\ \A x \in Tenants : storage'[x].agentToken = storage[x].agentToken
       /\ storage[t].agentToken.present
       /\ cb # ""
       /\ \E q \in requests : /\ q = [NoRequest EXCEPT !.pc = "register", !.org = t,
                                         !.flow = "user", !.user = out'.user,
                                         !.admin = out'.admin, !.callback = cb,
                                         !.fetched = t]
                               /\ requests' = requests \ {q}
       /\ out'.user \in storage'[t].users
       /\ out'.user \in orgState'[t].users
       /\ out'.result = returnToCli(cb, Joined(out'.user, t))

C13_PhaseADecision == [][C13_Step]_vars

\* A non-admin has joined a configured tenant.
C13_Witness ==
  /\ out.op = "register_user"
  /\ ~out.admin
  /\ out.result.action = "joined"
  /\ out.user \in storage[out.org].users
  /\ storage[out.org].agentToken.present

\* C14: the phase-B callback stores the elevated token in the object of the
\* organization the token identifies only after the code exchange and the
\* organization fetch have succeeded, registers the admin only after that
\* store, and posts success with action 'configured' only when the token
\* is in the tenant's record; when the viewer fetch returns nothing the
\* outcome is still 'configured', with no user registered.
C14_State ==
  /\ (out.result.posted /\ out.result.action = "configured") =>
        /\ out.op \in {"agent_viewer", "register_admin"}
        /\ out.result.success
        /\ out.result.organizationId = out.org
        /\ storage[out.org].agentToken.present
        /\ out.result.userId = out.user
        /\ out.op = "register_admin" =>
              /\ orgState[out.org].agentToken = storage[out.org].agentToken
              /\ out.user # ""
              /\ out.user \in storage[out.org].users
  /\ out.op = "set_org_token" =>
        /\ out.stored.present
        /\ storage[out.org].agentToken = out.stored
        /\ out.fetched = out.org
        /\ out.http = 0
        /\ ~out.result.posted
  /\ out.op = "agent_viewer" =>
        /\ out.http = 200
        /\ out.user = ""
        /\ out.result = returnToCli(out.result.callback, Configured("", out.org))
  /\ out.op = "agent_callback" => ~out.result.success
  /\ \A q \in requests :
        (q.flow = "agent" /\ q.pc \in {"viewer", "register"}) =>
           /\ storage[q.org].agentToken.present
           /\ q.pc = "register" => q.user # ""

C14_Step ==
  /\ out'.op = "set_org_token_request" =>
        /\ Ready
        /\ issued' = issued + 1
        /\ storage' = storage
        /\ \E q \in requests' \ requests :
              /\ q.pc = "set_token"
              /\ q.org = out'.org
              /\ q.fetched = out'.org
              /\ q.token.accessToken = AccessNames[issued']
  /\ out'.op = "set_org_token" =>
        /\ issued' = issued
        /\ \E q \in requests \ requests' :
              /\ q.pc = "set_token"
              /\ q.org = out'.org
              /\ storage'[q.org].agentToken = q.token
              /\ storage'[q.org].users = storage[q.org].users
              /\ requests' = (requests \ {q}) \cup {[q EXCEPT !.pc = "viewer"]}
  /\ out'.op = "agent_viewer" =>
        /\ \E q \in requests \ requests' :
              /\ q.pc = "viewer"
              /\ q.flow = "agent"
              /\ q.org = out'.org
              /\ q.user = ""
              /\ out'.result.callback = q.callback
        /\ UNCHANGED <<orgState, storage, issued>>
  /\ out'.op = "register_admin" =>
        /\ \E q \in requests \ requests' :
              /\ q.pc = "register"
              /\ q.flow = "agent"
              /\ q.org = out'.org
              /\ q.user = out'.user
              /\ out'.result = returnToCli(q.callback, Configured(q.user, q.org))
        /\ storage[out'.org].agentToken.present
        /\ storage'[out'.org].agentToken = storage[out'.org].agentToken
        /\ storage'[out'.org].users = storage[out'.org].users \cup {out'.user}
  /\ out'.op = "agent_callback" => UNCHANGED <<orgState, storage, requests, issued>>

C14_PhaseBOrder == [] C14_State /\ [][C14_Step]_vars

\* Phase B has stored a token and then reported 'configured' although the
\* viewer fetch gave no user.
C14_Witness ==
  /\ out.op = "agent_viewer"
  /\ out.user = ""
  /\ storage[out.org].users = {}
  /\ out.result.posted
  /\ out.result.action = "configured"
  /\ storage[out.org].agentToken.present

\* A callback has answered its request for good: every turn of the two
\* callbacks that answers (http # 0) but the 302 to phase B.
OAuthTerminal ==
  \/ out.op \in {"oauth_callback", "agent_callback", "agent_viewer", "register_user",
                 "register_admin"}
  \/ out.op = "has_org_token" /\ out.http \notin {0, 302}

\* C15 (as claimed): every terminal step of the two callbacks renders the
\* page that posts a structured result to the callback URL of the state, a
\* failure carrying an error that tells it from the others.
C15_EveryTerminalStepPosts ==
  OAuthTerminal =>
    /\ out.http = 200
    /\ out.result.posted
    /\ out.result.callback # ""
    /\ out.result.success \/ out.result.error # ""

\* The api_response the last turn took in.
Response == out.msgs[1].msg

\* C16 (as claimed): an apiCall whose request the broker relayed and whose
\* answer came back while it was pending resolves with the upstream body
\* when the upstream answered 2xx, and rejects with the upstream's error
\* message when the upstream answered with a status of 400 or more.
C16_RelayedCallOutcome ==
  (out.op = "api_response" /\ out.begins) =>
    /\ out.http \in 200..299 =>
         promises[out.id].state = "resolved" /\ promises[out.id].value = out.body
    /\ out.http >= 400 =>
         promises[out.id].state = "rejected" /\ promises[out.id].value = out.body

\* C17: an api_response settles the promise of the apiCall whose id it
\* carries, as its status and error say, and removes that entry; it touches
\* no other promise and no other entry; when no pending request has its id
\* it changes nothing of the client.
C17_Step ==
  out'.op = "api_response" =>
    LET response == out'.msgs[1].msg IN
    /\ \A id \in Uuids \ {response.id} :
          /\ promises'[id] = promises[id]
          /\ id \in pendingRequests' <=> id \in pendingRequests
    /\ IF response.id \in pendingRequests
         THEN /\ response.id \notin pendingRequests'
              /\ promises[response.id].state = "pending"
              /\ promises'[response.id] =
                   [state |-> Settlement(response).state,
                    value |-> Settlement(response).value, settles |-> 1]
         ELSE /\ promises' = promises
              /\ pendingRequests' = pendingRequests
    /\ UNCHANGED <<ws, readyState, shouldReconnect, pingInterval, pingTimers,
                   reconnectTimeout, reconnectTimers, apiTimers, connects>>

C17_NoCrossTalk == [][C17_Step]_vars

\* Two calls are outstanding and the answer to the second arrives first: it
\* has settled the second call and the first is still pending.
C17_Witness ==
  /\ out.op = "api_response"
  /\ out.begins
  /\ out.id = "id2"
  /\ Response.id = "id2"
  /\ promises["id2"].state \in {"resolved", "rejected"}
  /\ promises["id1"].state = "pending"
  /\ Asked(out.ws, "api", "id1")

\* C18: when the timer of an apiCall fires while its entry is pending, the
\* promise is rejected with 'API call timeout' and the entry removed; an
\* api_response for that id that arrives afterwards changes nothing, and no
\* promise has its resolve or reject called twice.
C18_State ==
  \A id \in Uuids :
    /\ promises[id].settles <= 1
    /\ promises[id].value = "API call timeout" =>
          /\ promises[id].state = "rejected"
          /\ id \notin pendingRequests
          /\ id \notin apiTimers

C18_Step ==
  /\ \A id \in Uuids :
       (out'.op = "timeout" /\ out'.id = id /\ id \in pendingRequests) =>
          /\ promises'[id] = [state |-> "rejected", value |-> "API call timeout", settles |-> 1]
          /\ pendingRequests' = pendingRequests \ {id}
  /\ \A id \in Uuids :
       promises[id].value = "API call timeout" => promises'[id] = promises[id]

C18_TimeoutRejects == [] C18_State /\ [][C18_Step]_vars

\* The answer to a call arrives after the call has timed out and is dropped.
C18_Witness ==
  /\ out.op = "api_response"
  /\ ~out.begins
  /\ promises[out.id].state = "rejected"
  /\ promises[out.id].value = "API call timeout"
  /\ promises[out.id].settles = 1

\* C19: disconnect() rejects every promise whose entry is pending with
\* 'Connection closed' and empties the map; a promise rejected so is never
\* touched again, neither by an answer that arrives later nor by its timer.
C19_Step ==
  /\ out'.op = "disconnect" =>
       /\ pendingRequests' = {}
       /\ \A id \in Uuids :
            promises'[id] = IF id \in pendingRequests
                              THEN [state |-> "rejected", value |-> "Connection closed",
                                    settles |-> 1]
                              ELSE promises[id]
  /\ \A id \in Uuids :
       promises[id].value = "Connection closed" =>
          /\ promises'[id] = promises[id]
          /\ id \notin pendingRequests'

C19_DisconnectRejectsPending == [][C19_Step]_vars

\* disconnect() was called with a call outstanding; the answer to that call
\* arrives while the socket is still closing and is dropped.
C19_Witness ==
  /\ out.op = "api_response"
  /\ ~out.begins
  /\ ~shouldReconnect
  /\ readyState[out.ws] = "closing"
  /\ promises[out.id].state = "rejected"
  /\ promises[out.id].value = "Connection closed"
  /\ out.id \in apiTimers

\* C20: once disconnect() has been called no reconnect timer is pending and
\* shouldReconnect stays false, so the only sockets created afterwards are
\* those of connect() calls of the user; disconnect() leaves no timer armed
\* and a close event after it arms none.
C20_State == ~shouldReconnect => reconnectTimeout # "armed"

C20_Step ==
  /\ ~shouldReconnect => ~shouldReconnect'
  /\ (~shouldReconnect /\ Created' # Created) => out'.op = "connect"
  /\ out'.op = "disconnect" => reconnectTimeout' = "null" /\ ~shouldReconnect'
  /\ out'.op = "reconnect" => shouldReconnect /\ reconnectTimeout = "armed"

C20_NoReconnectAfterDisconnect == [] C20_State /\ [][C20_Step]_vars

\* The socket that disconnect() closed has reported its close, after an
\* earlier socket had closed and its reconnect had fired, and no timer is
\* armed.
C20_Witness ==
  /\ out.op = "onclose"
  /\ ~shouldReconnect
  /\ reconnectTimeout = "null"
  /\ Created = 2
  /\ readyState[1] = "closed"
  /\ readyState[2] = "closed"
  /\ ws = 0

\* C21: while disconnect() has not been called, a close event of a socket
\* (one that was authenticated, one that never opened, one made by an
\* earlier reconnect) arms the reconnect timer and creates no socket itself,
\* and is eventually followed by a new socket made by the timer's callback;
\* this repeats without a limit on the number of retries.
C21_Step ==
  out'.op = "onclose" =>
    /\ Created' = Created
    /\ ws' = ws
    /\ shouldReconnect => reconnectTimeout' = "armed"

C21_ReconnectAfterClose ==
  /\ [][C21_Step]_vars
  /\ (out.op = "onclose" /\ shouldReconnect) ~> (out.op = "reconnect" \/ ~shouldReconnect)

\* The timer has made a socket after the socket of an earlier reconnect
\* closed without ever having been authenticated: a retry of a retry.
C21_Witness ==
  /\ out.op = "reconnect"
  /\ out.ws = 1
  /\ shouldReconnect
  /\ readyState[1] = "connecting"
  /\ readyState[2] = "closed"
  /\ connects[2].state = "pending"

\* C22 (as claimed): the turn in which a socket opens sends one message on it, auth with
\* the organizationId, userId and email of the options, and no other message
\* is sent on a socket before that turn; the promise of the connect() that
\* made a socket is settled only in the turn of an auth_response received on
\* that socket, resolved if the response has success = true and rejected if
\* it has success = false; the ping interval is started only in the turn of
\* an auth_response with success = true.
C22_Step ==
  /\ out'.op = "onopen" =>
       /\ Len(out'.msgs) = 1
       /\ out'.msgs[1].to = out'.ws
       /\ out'.msgs[1].msg.type = "auth"
       /\ out'.msgs[1].msg.organizationId = "T1"
       /\ out'.msgs[1].msg.userId = "u1"
       /\ out'.msgs[1].msg.email = "e1"
  /\ out'.op \in {"apiCall", "ping", "disconnect", "connect", "reconnect", "onclose", "timeout"} =>
       \A i \in 1..Len(out'.msgs) : readyState[out'.msgs[i].to] = "open"
  /\ \A k \in ClientSocks :
       connects'[k] # connects[k] =>
         /\ out'.ws = k
         /\ \/ /\ out'.op \in {"connect", "reconnect"}
               /\ connects[k].state = "none"
               /\ connects'[k].state = "pending"
            \/ /\ out'.op = "auth_response"
               /\ connects[k].state = "pending"
               /\ connects'[k].state =
                    IF out'.msgs[1].msg.success THEN "resolved" ELSE "rejected"
  /\ out'.op = "auth_response" =>
       /\ out'.msgs[1].msg.type = "auth_response"
       /\ connects'[out'.ws] # connects[out'.ws]
       /\ pingTimers' = pingTimers + (IF out'.msgs[1].msg.success THEN 1 ELSE 0)
  /\ (pingTimers' > pingTimers \/ (pingInterval' /\ ~pingInterval)) =>
       out'.op = "auth_response" /\ out'.msgs[1].msg.success

C22_ConnectHandshake == [][C22_Step]_vars

\* C23: with a webhook secret set, a webhook request without a signature
\* header, or whose header is not the HMAC of its raw body under the secret,
\* is answered 401 and reaches no object: nothing of any object changes and
\* nothing is sent; a request that is forwarded to an object carries the
\* HMAC of its body.  With no secret set no request is answered 401, and a
\* body that names a tenant is forwarded whatever its signature header.
C23_State ==
  /\ out.op \in {"webhook", "forward_webhook"} =>
       /\ (out.secret # "" /\ out.signature = "") => out.http = 401
       /\ (out.secret # "" /\ out.signature # Hmac(out.secret, out.body)) => out.http = 401
       /\ out.http = 401 => (~out.begins /\ out.org = "" /\ out.ws = 0 /\ out.msgs = <<>>)
       /\ (out.secret # "" /\ out.org # "") => out.signature = Hmac(out.secret, out.body)
       /\ out.secret = "" =>
            /\ out.http # 401
            /\ (Parsable(out.body) /\ BodyOrganizationId(out.body) # "") =>
                 out.org = BodyOrganizationId(out.body)
  /\ \A q \in requests :
       (q.pc = "forward" /\ q.secret # "") => q.signature = Hmac(q.secret, q.body)

C23_Step ==
  (out'.op = "webhook" /\ out'.http = 401) =>
    UNCHANGED <<orgState, initialized, storage, sockets, calls, requests>>

C23_WebhookSignature == [] C23_State /\ [][C23_Step]_vars

\* A webhook for u1 whose header is the signature of another body has been
\* answered 401 while a session of u1 was open and authenticated.
C23_Witness ==
  /\ out.op = "webhook"
  /\ out.http = 401
  /\ out.secret = "whsec"
  /\ out.body = "{org:T1,creator:u1}"
  /\ out.signature = Hmac("whsec", "{org:T1}")
  /\ \E s \in OpenSockets : sockets[s].att.authenticated /\ sockets[s].att.userId = "u1"

\* C24: a webhook request that passes the signature check (or meets none)
\* and whose body does not parse or names no organizationId is answered 400
\* and reaches no object; a request that fails the signature check is
\* answered 401 even when its body does not parse or names no tenant.
C24_State ==
  out.op \in {"webhook", "forward_webhook"} =>
    LET signed   == out.secret = "" \/ (out.signature # "" /\
                                        out.signature = Hmac(out.secret, out.body))
        noTenant == ~Parsable(out.body) \/ BodyOrganizationId(out.body) = "" IN
    /\ (signed /\ noTenant) => out.http = 400
    /\ (~signed /\ noTenant) => out.http = 401
    /\ out.http = 400 =>
         (signed /\ noTenant /\ ~out.begins /\ out.org = "" /\ out.ws = 0 /\ out.msgs = <<>>)
    /\ out.org # "" => (signed /\ ~noTenant /\ out.org = BodyOrganizationId(out.body))

C24_Step ==
  (out'.op = "webhook" /\ out'.http = 400) =>
    UNCHANGED <<orgState, initialized, storage, sockets, calls, requests>>

C24_WebhookWithoutTenant == [] C24_State /\ [][C24_Step]_vars

\* A correctly signed webhook that names a creator but no organization has
\* been answered 400 while a session of that creator was authenticated.
C24_Witness ==
  /\ out.op = "webhook"
  /\ out.http = 400
  /\ out.secret = "whsec"
  /\ out.body = "{creator:u1}"
  /\ out.signature = Hmac("whsec", "{creator:u1}")
  /\ \E s \in OpenSockets : sockets[s].att.authenticated /\ sockets[s].att.userId = "u1"

\* C25 (as claimed): a message on a session that the broker neither relays
\* nor accepts (a type it does not know, an auth it refuses, an api message
\* of an unauthenticated session or of a tenant without token) is answered
\* in its turn with one envelope on that session that carries an error, and
\* the session stays open.
C25_BrokerFailuresAnswered ==
  (/\ out.op \in {"auth", "api", "unknown"}
   /\ out.refresh = "" /\ out.upstream = ""
   /\ ~(Len(out.msgs) = 1 /\ out.msgs[1].msg.success)) =>
    /\ Len(out.msgs) = 1
    /\ out.msgs[1].to = out.ws
    /\ out.msgs[1].msg.error # ""
    /\ ~out.msgs[1].msg.success
    /\ sockets[out.ws].st = "open"

\* C26 (as claimed): the turn of an auth message sends exactly one message, an
\* auth_response on the session the auth came from, and no other turn sends
\* an auth_response; the response has success = true exactly if the turn
\* wrote the attachment {authenticated: true, userId, email} of the payload
\* on that session, and a refused auth leaves every attachment as it was.
C26_Step ==
  /\ out'.op = "auth" =>
       /\ Len(out'.msgs) = 1
       /\ out'.msgs[1].to = out'.ws
       /\ out'.msgs[1].msg.type = "auth_response"
       /\ sockets'[out'.ws].st = "open"
       /\ IF out'.msgs[1].msg.success
            THEN /\ sockets' = [sockets EXCEPT ![out'.ws].att =
                                  [authenticated |-> TRUE, userId |-> out'.user,
                                   email |-> EmailOf[out'.user]]]
                 /\ out'.msgs[1].msg.error = ""
            ELSE /\ sockets' = sockets
                 /\ out'.msgs[1].msg.error # ""
  /\ out'.op # "auth" =>
       /\ \A i \in 1..Len(out'.msgs) : out'.msgs[i].msg.type # "auth_response"
       /\ \A s \in SockIds :
            sockets'[s].att.authenticated => (sockets[s].att = sockets'[s].att)

C26_AuthAnsweredOnce == [][C26_Step]_vars

\* C27: no step of any operation (registration, storing a token, auth,
\* relay, refresh, eviction and re-initialisation of the object) removes a
\* key from the users map of a tenant's persisted record; a user whose
\* registration was acknowledged is in the persisted record; a registration
\* of a user who is already registered leaves the key set as it was; and an
\* initialized object holds every user of its persisted record.
C27_State ==
  /\ out.op \in {"register_user", "register_admin"} => out.user \in storage[out.org].users
  /\ \A t \in Tenants : initialized[t] => storage[t].users \subseteq orgState[t].users

C27_Step ==
  /\ \A t \in Tenants : storage[t].users \subseteq storage'[t].users
  /\ \A t \in Tenants :
       storage'[t].users # storage[t].users =>
         /\ out'.op \in {"register_user", "register_admin"}
         /\ out'.org = t
         /\ storage'[t].users = storage[t].users \cup {out'.user}
  /\ (out'.op \in {"register_user", "register_admin"} /\ out'.user \in storage[out'.org].users) =>
       storage'[out'.org].users = storage[out'.org].users

C27_UsersNeverShrink == [] C27_State /\ [][C27_Step]_vars

\* A refresh has stored a new token after two users were registered, and both
\* users are in the persisted record and in the object's memory.
C27_Witness ==
  /\ out.op = "refreshed"
  /\ storage["T1"].agentToken.accessToken = "at2"
  /\ storage["T1"].users = {"u1", "u2"}
  /\ orgState["T1"].users = {"u1", "u2"}

\* C28 (as claimed): whatever the object holds in memory, an auth message
\* of a user who is a key of the persisted users map of a tenant whose
\* persisted record holds a token is answered with success, and an api
\* message on an authenticated session of such a tenant obtains the token:
\* its turn issues the refresh exchange or the upstream call.
C28_MessagesUsePersistedRecord ==
  /\ (/\ out.op = "auth"
      /\ storage[out.org].agentToken.present
      /\ out.user \in storage[out.org].users) =>
       (Len(out.msgs) = 1 /\ out.msgs[1].msg.success)
  /\ (/\ out.op = "api"
      /\ sockets[out.ws].att.authenticated
      /\ storage[out.org].agentToken.present) =>
       (out.refresh # "" \/ out.upstream # "")

\* C29: the eviction of an object leaves every session and its attachment
\* {authenticated, userId, email} as they were.  Whether or not the object
\* is initialized, an api message is answered 401 'Not authenticated'
\* exactly if the attachment of its session is not authenticated, and a
\* webhook the object found a target for went to an authenticated session
\* of the tenant, that of the webhook's creator if one is authenticated;
\* it found no target only if no session of the tenant is authenticated.
C29_State ==
  /\ out.op = "api" =>
       (sockets[out.ws].att.authenticated <=>
          ~(Len(out.msgs) = 1 /\ out.msgs[1].msg.status = 401))
  /\ (out.op = "webhook" /\ out.org # "") =>
       /\ out.ws = 0 <=> AuthenticatedSockets(out.org) = {}
       /\ out.ws # 0 =>
            /\ out.ws \in AuthenticatedSockets(out.org)
            /\ MatchingSockets(out.org, BodyCreatorId(out.body)) # {} =>
                 sockets[out.ws].att.userId = BodyCreatorId(out.body)

C29_Step ==
  out'.op = "recycle" =>
    /\ sockets' = sockets
    /\ storage' = storage
    /\ ~initialized'[out'.org]

C29_SessionsSurviveRecycle == [] C29_State /\ [][C29_Step]_vars

\* After an eviction, with nothing of the tenant loaded again, an api
\* message on the session that u1 had authenticated was not refused as
\* unauthenticated, while the other open session is not authenticated.
C29_Witness ==
  /\ out.op = "api"
  /\ ~initialized[out.org]
  /\ sockets[out.ws].att = [authenticated |-> TRUE, userId |-> "u1", email |-> "e1"]
  /\ Len(out.msgs) = 1
  /\ out.msgs[1].msg.status # 401
  /\ \E s \in OpenSockets : ~sockets[s].att.authenticated

\* C30 (as claimed): the turn of an api message on an authenticated session
\* of an object that holds a token issues a refresh-token exchange exactly
\* if the token has an expiry and now > expiresAt - 5 minutes.
C30_RefreshIffNearExpiry ==
  (/\ out.op = "api"
   /\ sockets[out.ws].att.authenticated
   /\ orgState[out.org].agentToken.present) =>
    ((\E c \in calls : /\ c.pc = "refresh" /\ c.ws = out.ws /\ c.id = out.id
                         /\ c.org = out.org)
       <=> NeedsRefresh(orgState[out.org].agentToken, now))

\* C31: a successful refresh exchange replaces the stored token by {the new
\* access token, the refresh token of the answer if it carries one and the
\* previous refresh token otherwise, expiresAt = now + expires_in, the scope
\* unchanged}; the new record is persisted, and the relay call that started
\* the refresh issues its upstream call with the new access token.
C31_Step ==
  \A c \in calls :
    (/\ out'.op = "refreshed" /\ c.pc = "refresh"
     /\ out'.ws = c.ws /\ out'.id = c.id /\ issued' = issued + 1) =>
      LET old == orgState[c.org].agentToken
          new == orgState'[c.org].agentToken IN
        /\ new = [present |-> TRUE,
                  accessToken |-> AccessNames[issued'],
                  refreshToken |-> IF out'.granted # "" THEN out'.granted
                                   ELSE old.refreshToken,
                  expiresAt |-> now + ExpiresInSec * 1000,
                  scope |-> old.scope]
        /\ new.accessToken # old.accessToken
        /\ storage'[c.org] = orgState'[c.org]
        /\ out'.upstream = new.accessToken
        /\ [c EXCEPT !.pc = "upstream", !.bearer = new.accessToken] \in calls'
        /\ c \notin calls'

C31_RefreshSuccessReplacesToken == [][C31_Step]_vars

\* A refresh whose answer carried no refresh_token has completed: the stored
\* token has the new access token and the refresh token of provisioning.
C31_Witness ==
  /\ out.op = "refreshed"
  /\ out.granted = ""
  /\ out.upstream = "at2"
  /\ storage["T1"].agentToken.accessToken = "at2"
  /\ storage["T1"].agentToken.refreshToken = "rt1"
  /\ storage["T1"].agentToken.expiresAt = now + ExpiresInSec * 1000

\* C32: setTrustToken and registerUser persist before they acknowledge: when
\* the object has answered a set-org-token or register-user request, the
\* persisted record of the tenant holds the token / the user of the request;
\* and a tenant holds one trust token: the persisted record has one token
\* field, which a later setTrustToken or refresh overwrites, and the object
\* in memory holds no other token than the persisted one.
C32_PersistBeforeAck ==
  /\ out.op = "set_org_token" =>
        /\ out.stored.present
        /\ storage[out.org].agentToken = out.stored
        /\ out.stored.refreshToken = out.granted
  /\ out.op \in {"register_user", "register_admin"} =>
        out.user \in storage[out.org].users
  /\ \A t \in Tenants :
        initialized[t] => orgState[t].agentToken = storage[t].agentToken

\* A second setTrustToken was acknowledged: the record holds its token only.
C32_Witness ==
  /\ out.op = "set_org_token"
  /\ issued = 2
  /\ storage["T1"].agentToken.accessToken = "at2"
  /\ orgState["T1"].agentToken.accessToken = "at2"
  /\ storage["T1"].users # {}

\* C33: no operation of the broker turns an open session from authenticated
\* back to unauthenticated; an auth message that fails on an authenticated
\* session leaves its {authenticated, userId, email} as they were, so the
\* session stays a target of webhooks and its api calls pass the
\* authentication check as the user it was authenticated as.
C33_Step ==
  \A s \in SockIds :
    (sockets[s].st = "open" /\ sockets[s].att.authenticated) =>
       /\ sockets'[s].st = "open" => sockets'[s].att.authenticated
       /\ (/\ out'.op = "auth" /\ out'.ws = s
           /\ (out'.msgs = <<>> \/ ~out'.msgs[1].msg.success)) =>
             /\ sockets'[s] = sockets[s]
             /\ s \in getWebSockets(sockets[s].org)'
             /\ ApiRelayPath(sockets'[s].att, orgState'[sockets[s].org].agentToken, now')
                  # "unauthenticated"

C33_NeverBackToUnauthenticated == [][C33_Step]_vars

\* An auth for a user the tenant does not know was rejected on a session
\* that is authenticated as u1.
C33_Witness ==
  \E s \in SockIds :
    /\ out.op = "auth" /\ out.ws = s /\ out.user = "u2"
    /\ ~out.msgs[1].msg.success /\ out.msgs[1].msg.error = "User not registered"
    /\ sockets[s].att = [authenticated |-> TRUE, userId |-> "u1", email |-> EmailOf["u1"]]

\* C34: trust-token presence is monotonic: once the object of a tenant
\* answers hasTrustToken() with true (200), it answers true in every later
\* state, whatever re-provisioning, successful or failed refreshes, user
\* registrations and evictions follow; the persisted token is never removed.
C34_Step ==
  \A t \in Tenants :
    /\ hasOrgTokenStatus(t) = 200 => hasOrgTokenStatus(t)' = 200
    /\ storage[t].agentToken.present => storage'[t].agentToken.present

C34_TokenPresenceMonotonic == [][C34_Step]_vars

\* The object was evicted after a second token was issued to the tenant: it
\* holds nothing in memory and still answers that the tenant has a token.
C34_Witness ==
  /\ out.op = "recycle" /\ out.org = "T1"
  /\ ~initialized["T1"]
  /\ ~orgState["T1"].agentToken.present
  /\ issued = 2
  /\ hasOrgTokenStatus("T1") = 200

\* C35: in every reachable state of the provisioning flow, a tenant whose
\* persisted users map is not empty has a trust token: phase A registers a
\* user only after the object reported a token, and phase B registers the
\* admin only after it stored the token.
C35_UsersImplyToken ==
  /\ \A t \in Tenants :
       storage[t].users # {} => storage[t].agentToken.present
  /\ out.op \in {"register_user", "register_admin"} =>
       storage[out.org].agentToken.present

\* Phase B registered the admin u1 and phase A then joined u2.
C35_Witness ==
  /\ out.op = "register_user" /\ out.user = "u2"
  /\ storage["T1"].users = {"u1", "u2"}
  /\ storage["T1"].agentToken.present

\* C36: a trust token is written to the object of tenant T only by the
\* phase-B callback, after the elevated code exchange succeeded and the
\* identity fetch made with the new token returned T (the orgId of the
\* round-tripped state does not select the object), or by a refresh of T's
\* own token; so the token stored for T was issued for organization T, and
\* no token is stored for two tenants.
C36_State ==
  /\ (out.op = "api" /\ out.refresh # "") =>
        out.refresh = orgState[out.org].agentToken.refreshToken
  /\ out.op = "set_org_token_request" => out.fetched = out.org
  /\ \A q \in requests :
        q.pc = "set_token" =>
           /\ q.org = q.fetched
           /\ \E n \in 1..issued : q.token.accessToken = AccessNames[n]
           /\ \A u \in Tenants \ {q.org} :
                 storage[u].agentToken.accessToken # q.token.accessToken
  /\ \A t, u \in Tenants :
        (t # u /\ storage[t].agentToken.present /\ storage[u].agentToken.present) =>
           /\ storage[t].agentToken.accessToken # storage[u].agentToken.accessToken
           /\ storage[t].agentToken.refreshToken = ""
                \/ storage[t].agentToken.refreshToken # storage[u].agentToken.refreshToken

C36_Step ==
  \A t \in Tenants :
    (storage'[t].agentToken # storage[t].agentToken
       \/ (orgState'[t].agentToken.present
             /\ orgState'[t].agentToken # orgState[t].agentToken
             /\ orgState'[t].agentToken # storage[t].agentToken)) =>
      \/ /\ out'.op = "set_org_token"
         /\ out'.org = t
         /\ out'.fetched = t
         /\ \E q \in requests : /\ q.pc = "set_token"
                                 /\ q.org = t
                                 /\ q.fetched = t
                                 /\ storage'[t].agentToken = q.token
      \/ /\ out'.op = "refreshed"
         /\ out'.org = t
         /\ orgState[t].agentToken.present
         /\ orgState[t].agentToken.refreshToken # ""
         /\ \E c \in calls : c.pc = "refresh" /\ c.org = t /\ c.ws = out'.ws /\ c.id = out'.id
         /\ issued' = issued + 1
         /\ storage'[t].agentToken.accessToken = AccessNames[issued']

C36_TokenWrittenForItsTenant == []C36_State /\ [][C36_Step]_vars

\* Phase B stored a token for T2, whose identity fetch returned T2, while T1
\* holds another token.
C36_Witness ==
  /\ out.op = "set_org_token" /\ out.org = "T2" /\ out.fetched = "T2"
  /\ storage["T2"].agentToken = out.stored
  /\ storage["T1"].agentToken.present
  /\ storage["T1"].agentToken.accessToken # storage["T2"].agentToken.accessToken

\* C37: every promise returned by apiCall is settled exactly once, by the
\* first of the matching api_response, its 30 s timer and a connection
\* close / disconnect, and never a second time; and it is eventually settled
\* in every execution, also when the api message was never sent because the
\* socket was not open or disconnect() had been called: no api_response can
\* then arrive, and the timer settles it unless a cleanup does first.
\* A settled promise stays settled, so "every promise is eventually settled"
\* is: at every moment, a later moment comes at which no promise is pending.
C37_State ==
  \A id \in Uuids :
    /\ promises[id].settles <= 1
    /\ promises[id].state = "pending" => id \in apiTimers /\ id \in pendingRequests
    /\ promises[id].state \in {"resolved", "rejected"} =>
          promises[id].settles = 1 /\ id \notin pendingRequests

C37_Step ==
  \A id \in Uuids :
    /\ promises[id].state \in {"resolved", "rejected"} => promises'[id] = promises[id]
    /\ (promises[id].state = "pending" /\ promises'[id].state # "pending") =>
          \/ /\ out'.op = "api_response" /\ out'.id = id
             /\ \E k \in ClientSocks : Asked(k, "api", id)
          \/ /\ out'.op = "timeout" /\ out'.id = id
             /\ promises'[id].value = "API call timeout"
          \/ /\ out'.op \in {"onclose", "disconnect"}
             /\ promises'[id].value = "Connection closed"
    /\ (out'.op = "apiCall" /\ out'.id = id /\ out'.msgs = <<>>) =>
          /\ promises'[id].state = "pending"
          /\ \A k \in ClientSocks : ~Asked(k, "api", id)'

C37_ApiCallSettledOnce ==
  /\ []C37_State
  /\ [][C37_Step]_vars
  /\ []<>(\A id \in Uuids : promises[id].state # "pending")

\* An apiCall made before any connect() was never sent; its timer has
\* rejected it.
C37_Witness ==
  /\ out.op = "timeout"
  /\ \A k \in ClientSocks : readyState[k] = "none"
  /\ promises[out.id] = [state |-> "rejected", value |-> "API call timeout", settles |-> 1]

\* C37 as stated: an apiCall whose message was never sent (it is pending and
\* the proxy holds no request for its id) is settled by its timer only.
C37_NeverSentOnlyTimeout ==
  [][\A id \in Uuids :
       (/\ promises[id].state = "pending"
        /\ \A k \in ClientSocks : ~Asked(k, "api", id)
        /\ promises'[id].state # "pending") => out'.op = "timeout"]_vars

\* C38: a socket close that disconnect() did not cause rejects every apiCall
\* outstanding at that moment with 'Connection closed' and empties the
\* pending-request map before the reconnect is scheduled, so no pending
\* request is carried from one connection into the next.
C38_Step ==
  (out'.op = "onclose" /\ shouldReconnect) =>
     /\ pendingRequests' = {}
     /\ \A id \in Uuids :
          /\ id \in pendingRequests =>
               promises'[id] = [state |-> "rejected", value |-> "Connection closed",
                                settles |-> 1]
          /\ id \notin pendingRequests => promises'[id] = promises[id]
          /\ promises'[id].state # "pending"
     /\ reconnectTimeout' = "armed"
     /\ reconnectTimers' = 1

C38_CloseRejectsOutstanding == [][C38_Step]_vars

\* The socket closed with two apiCalls outstanding: both are rejected, the
\* map is empty and the reconnect timer is armed.
C38_Witness ==
  /\ out.op = "onclose"
  /\ shouldReconnect
  /\ reconnectTimeout = "armed"
  /\ pendingRequests = {}
  /\ \A id \in {"id1", "id2"} :
       promises[id] = [state |-> "rejected", value |-> "Connection closed", settles |-> 1]

\* C39: when the socket a connect() call opened closes before an
\* auth_response was received on it, the promise that call returned is never
\* settled, neither resolved nor rejected, also when a later automatic
\* reconnect authenticates: a later attempt settles the promise of its own
\* connect() call only.
C39_State ==
  \A k \in ClientSocks :
    /\ connects[k].state = "pending" => connects[k].settles = 0
    /\ (readyState[k] = "closed" /\ connects[k].state = "pending") =>
          \A r \in DOMAIN asked : r.sock # k

C39_Step ==
  \A k \in ClientSocks :
    /\ (readyState[k] = "closed" /\ connects[k].state = "pending") =>
          /\ connects'[k] = connects[k]
          /\ readyState'[k] = "closed"
    /\ (connects[k].state = "pending" /\ out'.op = "onclose" /\ out'.ws = k) =>
          connects'[k] = connects[k]
    /\ connects'[k] # connects[k] =>
          \/ out'.op \in {"connect", "reconnect"} /\ out'.ws = k
          \/ out'.op = "auth_response" /\ out'.ws = k

C39_ConnectPromiseNeverSettled == []C39_State /\ [][C39_Step]_vars

\* The first socket closed before its auth was answered and its promise is
\* pending; the socket of the reconnect has authenticated.
C39_Witness ==
  /\ readyState[1] = "closed"
  /\ connects[1] = [state |-> "pending", value |-> "", settles |-> 0]
  /\ out.op = "auth_response" /\ out.ws = 2
  /\ connects[2].state = "resolved"
  /\ pingInterval

\* C40: when the user calls connect() once and afterwards only the reconnect
\* timer does, the client has at every moment at most one active ping
\* interval (the one this.pingInterval refers to) and at most one pending
\* reconnect timer (the one this.reconnectTimeout refers to), never both at
\* once; a ping is sent only on a socket whose auth_response was a success
\* and that has not closed; and receiving pong changes no state of the client.
C40_State ==
  /\ pingTimers = (IF pingInterval THEN 1 ELSE 0)
  /\ reconnectTimers = (IF reconnectTimeout = "armed" THEN 1 ELSE 0)
  /\ ~(pingTimers > 0 /\ reconnectTimers > 0)
  /\ pingInterval =>
        \E k \in ClientSocks : /\ connects[k].state = "resolved"
                               /\ readyState[k] \in {"open", "closing"}
  /\ (out.op = "ping" /\ out.msgs # <<>>) =>
        /\ ws # 0
        /\ readyState[ws] = "open"
        /\ connects[ws].state = "resolved"
        /\ out.msgs = <<[to |-> ws, msg |-> ClientMessage("ping", "")]>>

C40_Step == out'.op = "pong" => clientVars' = clientVars

C40_OneTimerAtATime == []C40_State /\ [][C40_Step]_vars

\* After a reconnect the second socket has authenticated and its ping
\* interval has sent a ping; the reconnect timer has fired.
C40_Witness ==
  /\ out.op = "ping"
  /\ out.msgs # <<>>
  /\ ws = 2
  /\ reconnectTimeout = "fired"
  /\ pingTimers = 1
  /\ reconnectTimers = 0
====
